---- MODULE Spec2Model ----
(***************************************************************************)
(* Model of the upstream version resolution engine of                      *)
(* aur-update-checker-python.                                              *)
(*                                                                         *)
(*   Spec      AsyncExecutor (src/modules/async_executor.py): the rate     *)
(*             limiter, the delayed task queue and its drain loop, the     *)
(*             thread pool, the retry/backoff of _handle_exception and     *)
(*             the callbacks.                                              *)
(*   FairSpec  the same machine with weak fairness on every thread's       *)
(*             steps and on the clock.                                     *)
(*   ConfiguredSpec  the same machine constructed with any max_concurrency.*)
(*   ResolveSpec  MainCheckerModule (src/modules/main_checker.py): one     *)
(*             check_multiple_upstream_versions batch, the strategy        *)
(*             selection, the option ladder and the normalisation of each  *)
(*             check_single_upstream_version, with the JSON strategy       *)
(*             (checkers/upstream_json_checker.py) computed from the       *)
(*             document it fetches.                                        *)
(*   SelectSpec  the strategy selection of check_single_upstream_version   *)
(*             applied to one checker_type and one upstream_url.           *)
(*   TimeoutSpec  Spec with operations that exceed their timeout in        *)
(*             _run_task.                                                  *)
(*   ShapesSpec  ResolveSpec over records whose reference versions differ  *)
(*             in shape and whose strategies share one checker instance.   *)
(*   RepeatSpec  batches over the same package_info dicts, one after the   *)
(*             other.                                                      *)
(*   NormalizeSpec, SimilarSpec, LatestSpec  VersionProcessor              *)
(*             (src/modules/version_processor.py): normalize_version,      *)
(*             is_version_similar and get_latest_version applied to one    *)
(*             argument drawn from a bounded set.                          *)
(*   TransientSpec  Spec with first attempts that end by a fault a second  *)
(*             execution of the operation would not meet.                  *)
(*   GithubSpec  UpstreamGithubChecker.check_version                       *)
(*             (src/modules/checkers/upstream_github_checker.py) applied   *)
(*             to one release, its assets and the latest tag.              *)
(*   RedirectSpec  UpstreamRedirectChecker.check_version                   *)
(*             (src/modules/checkers/upstream_redirect_checker.py)         *)
(*             applied to one response.                                    *)
(*   DatabaseSpec  DatabaseModule (src/modules/database.py): the threads   *)
(*             that read one package through the query cache and the       *)
(*             thread that writes it.                                      *)
(*   BackgroundSpec  BackgroundTaskManager                                 *)
(*             (src/modules/thread_ui_helper.py): schedule_task and the    *)
(*             worker threads.                                             *)
(***************************************************************************)
EXTENDS Integers, Sequences, FiniteSets, TLC

(***************************************************************************)
(* Bounds of the model.                                                    *)
(***************************************************************************)
\* number of operations handed to run_coroutine
NumOps == 3
\* length of the rate-limit period in clock ticks (60 seconds in the code)
Window == 2
\* operations admitted per period (_max_requests_per_minute, 60 in the code)
MaxRequestsPerMinute == 1
\* threads of the ThreadPoolExecutor (max_workers, 3 by default)
MaxWorkers == 2
\* max_concurrency is a constructor argument drawn from 1..MaxConcurrencyArg
MaxConcurrencyArg == 2
\* threads that call run_coroutine (the callers in src/ui run on the Qt
\* main thread)
Callers == 1
\* records in one check_multiple_upstream_versions batch
NumRecs == 2
\* longest argument of normalize_version
MaxLen == 3
\* longest list passed to get_latest_version
MaxVersions == 2
\* assets of the release the host-release-API strategy looks at
MaxAssets == 2
\* threads that read packages through execute_cached
NumReaders == 1
\* successful writes to the row of the package
MaxWrites == 2
\* tasks handed to BackgroundTaskManager.schedule_task
NumTasks == 3
\* worker threads of the BackgroundTaskManager (max_workers, 4 by default)
MaxBgWorkers == 2
\* nested get_latest_version frames the interpreter allows before it raises
\* RecursionError (1000 frames of any kind in CPython)
RecursionLimit == 3

(***************************************************************************)
(* Program constants.                                                      *)
(***************************************************************************)
MaxRetries == 3
RetryDelay == 1
DefaultMaxConcurrency == 10

Ops == 1..NumOps
DrainItem == 0

VARIABLES
    max_concurrency,    \* self._max_concurrency
    requests_count,     \* self._requests_count
    elapsed,            \* time.time() - self._last_reset_time, saturating
    task_queue,         \* self._task_queue (deque of queued operations)
    queue_processing,   \* self._queue_processing
    drain,              \* position of _process_task_queue
    drain_item,         \* task_info popped by the drain loop
    poolq,              \* work items waiting for a pool thread
    st,                 \* position of every operation
    retry_on_failure,   \* task_context["retry_on_failure"]
    retry_count,        \* task_context["retry_count"]
    delays,             \* the retry_delay values slept, in order
    current_concurrency,\* self._stats["current_concurrency"]
    cb_ok,              \* success callbacks posted per operation
    cb_err,             \* error callbacks posted per operation
    recent,             \* recent[a]: dispatches made a ticks ago
    stats_total,        \* self._stats["total"]
    timed_out,          \* the first attempt ended by the expiry of wait_for
    transient,          \* the first attempt ended by a fault that a second
                        \* execution of the operation would not meet
    future              \* the Future that run_coroutine returned

VARIABLES
    batch,              \* position of check_multiple_upstream_versions
    batch_results,      \* the list it returns
    rpc,                \* position of every check_single_upstream_version
    pkg,                \* package_info and the storage row of every record
    checker,            \* key of the selected entry of self.checkers
    calls,              \* option sets of the check_version calls, in order
    raised,             \* exception that ended each finished call
    raw,                \* what the last check_version call returned
    result,             \* what check_single_upstream_version returned
    hook_calls,         \* versions passed to db.update_upstream_version
    package_config,     \* version_pattern of every checker's package_config
    fn_in,              \* argument of the pure function under check
    fn_out              \* its value

VARIABLES
    packages,           \* the row of one package in the packages table
    query_cache,        \* self._query_cache, one entry per cached SELECT
    reader,             \* position of every thread in execute_cached
    writer              \* position of the thread that writes

VARIABLES
    bg_task_queue,      \* BackgroundTaskManager._task_queue
    active_tasks,       \* keys of BackgroundTaskManager._active_tasks
    results,            \* keys of BackgroundTaskManager._results
    worker,             \* the task every worker thread is running
    scheduled           \* number of schedule_task calls made

rvars == <<batch, batch_results, rpc, pkg, checker, calls, raised, raw,
           result, hook_calls, package_config, fn_in, fn_out>>

evars == <<max_concurrency, requests_count, elapsed, task_queue,
          queue_processing, drain, drain_item, poolq, st, retry_on_failure,
          retry_count, delays, current_concurrency, cb_ok, cb_err, recent,
          stats_total, timed_out, transient, future>>

dvars == <<packages, query_cache, reader, writer>>

bvars == <<bg_task_queue, active_tasks, results, worker, scheduled>>

vars == <<evars, rvars, dvars, bvars>>

\* 2 ** n
RECURSIVE Pow2(_)
Pow2(n) == IF n <= 0 THEN 1 ELSE 2 * Pow2(n - 1)

Min(a, b) == IF a < b THEN a ELSE b

(***************************************************************************)
(* _check_rate_limit: the counter is reset when more than one period has   *)
(* passed since the last reset; the request is admitted while the counter  *)
(* is below the limit.                                                     *)
(***************************************************************************)
RateLimitResetNever(e) == FALSE
RateLimitReset(e) == e > Window

CountAfterCheck == IF RateLimitReset(elapsed) THEN 0 ELSE requests_count
ElapsedAfterCheck == IF RateLimitReset(elapsed) THEN 0 ELSE elapsed
CheckRateLimit == CountAfterCheck < MaxRequestsPerMinute

(***************************************************************************)
(* _handle_exception: the retry condition and the exponential backoff.     *)
(***************************************************************************)
CanRetryEarly(n, r) == n < MaxRetries - 1 /\ r
CanRetry(n, r) == n < MaxRetries /\ r

RetryDelayLinear(n) == RetryDelay * n
RetryDelayOf(n) == RetryDelay * Pow2(n - 1)

\* pool threads in use: running or sleeping tasks and the drain loop
BusyWorkers ==
    Cardinality({o \in Ops : st[o] \in {"running", "backoff"}})
    + (IF drain \in {"loop", "sleep", "holding"} THEN 1 ELSE 0)

Terminal(o) == st[o] \in {"done_ok", "done_fail"}


(***************************************************************************)
(* Text.  A string is a sequence of one-character strings; None is NoneT.  *)
(***************************************************************************)
NoneT == <<"None">>
Digits == {"0", "1", "2", "3", "4", "5", "6", "7", "8", "9"}
IsDigit(c) == c \in Digits

\* bool(t) of an Optional[str]
Truthy(t) == t # NoneT /\ t # <<>>

\* a or b
Or(a, b) == IF Truthy(a) THEN a ELSE b

\* str.strip()
RECURSIVE LStrip(_)
LStrip(t) == IF t # <<>> /\ Head(t) = " " THEN LStrip(Tail(t)) ELSE t
RECURSIVE RStrip(_)
RStrip(t) ==
    IF t # <<>> /\ t[Len(t)] = " " THEN RStrip(SubSeq(t, 1, Len(t) - 1))
    ELSE t
Strip(t) == RStrip(LStrip(t))

\* str.split(sep) for a one-character separator
RECURSIVE Split(_, _)
Split(t, sep) ==
    IF \E i \in 1..Len(t) : t[i] = sep
    THEN LET i == CHOOSE k \in 1..Len(t) :
                      t[k] = sep /\ \A m \in 1..(k - 1) : t[m] # sep
         IN <<SubSeq(t, 1, i - 1)>> \o Split(SubSeq(t, i + 1, Len(t)), sep)
    ELSE <<t>>

\* str.isdigit()
IsDigitStr(t) == t # <<>> /\ \A i \in 1..Len(t) : IsDigit(t[i])

\* p in t
IsSubstring(p, t) ==
    \E i \in 1..(Len(t) - Len(p) + 1) : SubSeq(t, i, i + Len(p) - 1) = p

(***************************************************************************)
(* VersionProcessor.normalize_version: re.sub(r"^[^0-9]*", "", v) and      *)
(* then re.sub(r"[^0-9.]*$", "", v).                                       *)
(***************************************************************************)
RECURSIVE LStripNonDigit(_)
LStripNonDigit(t) ==
    IF t = <<>> \/ IsDigit(Head(t)) THEN t ELSE LStripNonDigit(Tail(t))

RECURSIVE RStripNonDigitDot(_)
RStripNonDigitDot(t) ==
    IF t = <<>> \/ IsDigit(t[Len(t)]) \/ t[Len(t)] = "." THEN t
    ELSE RStripNonDigitDot(SubSeq(t, 1, Len(t) - 1))

NormalizeVersionOnce(v) == IF v = NoneT THEN NoneT ELSE RStripNonDigitDot(IF v # <<>> /\ ~IsDigit(Head(v)) THEN Tail(v) ELSE v)
NormalizeVersion(v) ==
    IF v = NoneT THEN NoneT ELSE RStripNonDigitDot(LStripNonDigit(v))

(***************************************************************************)
(* VersionProcessor.is_version_similar.                                    *)
(***************************************************************************)
IsVersionSimilar(version, version_pattern) ==
    IF ~Truthy(version) \/ ~Truthy(version_pattern) THEN FALSE
    ELSE LET version_parts == Split(version, ".")
             pattern_parts == Split(version_pattern, ".")
         IN IF Len(version_parts) < Len(pattern_parts)
            THEN Len(version_parts) >= 2
            ELSE \A i \in 1..Len(version_parts) : IsDigitStr(version_parts[i])


(***************************************************************************)
(* VersionProcessor.clean_version: the archive extension at the end is     *)
(* removed, then every "-" or "_" together with a "v" that follows it.     *)
(* The texts of the model hold no upper-case letter.                       *)
(***************************************************************************)
Extensions ==
    {<<".", "z", "i", "p">>, <<".", "t", "a", "r", ".", "g", "z">>,
     <<".", "t", "g", "z">>, <<".", "r", "p", "m">>, <<".", "d", "e", "b">>,
     <<".", "e", "x", "e">>, <<".", "d", "m", "g">>, <<".", "p", "k", "g">>}

EndsWith(t, e) ==
    Len(t) >= Len(e) /\ SubSeq(t, Len(t) - Len(e) + 1, Len(t)) = e

StripExtension(t) ==
    IF \E e \in Extensions : EndsWith(t, e)
    THEN LET e == CHOOSE x \in Extensions : EndsWith(t, x)
         IN SubSeq(t, 1, Len(t) - Len(e))
    ELSE t

RECURSIVE StripDashV(_)
StripDashV(t) ==
    IF t = <<>> THEN <<>>
    ELSE IF Head(t) \in {"-", "_"}
    THEN IF Len(t) >= 2 /\ t[2] = "v"
         THEN StripDashV(SubSeq(t, 3, Len(t)))
         ELSE StripDashV(Tail(t))
    ELSE <<Head(t)>> \o StripDashV(Tail(t))

CleanVersion(v) == IF v = NoneT THEN NoneT ELSE StripDashV(StripExtension(v))

(***************************************************************************)
(* VersionProcessor.get_latest_version.  Its value is a version, NoneT,    *)
(* or the exception it raises: ValueError from int(part), RecursionError   *)
(* from the nested calls of the format check.                              *)
(***************************************************************************)
ValueErrorT == <<"ValueError">>
RecursionErrorT == <<"RecursionError">>
IsError(r) == r \in {ValueErrorT, RecursionErrorT}

DigitChars == <<"0", "1", "2", "3", "4", "5", "6", "7", "8", "9">>
DigitValue(c) == (CHOOSE n \in 1..10 : DigitChars[n] = c) - 1

\* int(part) for a part that is a run of digits
RECURSIVE IntOf(_)
IntOf(t) ==
    IF t = <<>> THEN 0
    ELSE 10 * IntOf(SubSeq(t, 1, Len(t) - 1)) + DigitValue(t[Len(t)])

\* parts[i] if i < len(parts), else the part counts as 0
PartOfPadded99(parts, i) == IF i <= Len(parts) THEN parts[i] ELSE <<"9", "9">>
PartOf(parts, i) == IF i <= Len(parts) THEN parts[i] ELSE <<"0">>

\* the loop over the parts: "newer", "older", "same" or "error"
RECURSIVE CompareFrom(_, _, _)
CompareFrom(current_parts, latest_parts, i) ==
    IF i > Len(current_parts) /\ i > Len(latest_parts) THEN "same"
    ELSE LET current_part == PartOf(current_parts, i)
             latest_part == PartOf(latest_parts, i)
         IN IF ~IsDigitStr(current_part) \/ ~IsDigitStr(latest_part)
            THEN "error"
            ELSE IF IntOf(current_part) > IntOf(latest_part) THEN "newer"
            ELSE IF IntOf(current_part) < IntOf(latest_part) THEN "older"
            ELSE CompareFrom(current_parts, latest_parts, i + 1)

\* an entry of valid_versions
ValidEntry(v) == [original |-> v, normalized |-> NormalizeVersion(CleanVersion(v))]

RECURSIVE ValidVersions(_)
ValidVersions(versions) ==
    IF versions = <<>> THEN <<>>
    ELSE LET rest == ValidVersions(Tail(versions))
         IN IF Head(versions) # NoneT
               /\ Truthy(NormalizeVersion(CleanVersion(Head(versions))))
            THEN <<ValidEntry(Head(versions))>> \o rest
            ELSE rest

ErrorEntry == [original |-> ValueErrorT, normalized |-> ValueErrorT]

\* the comparison loop over valid_versions[k..], latest being the best so far
RECURSIVE NewestFrom(_, _, _)
NewestFrom(latest, valid, k) ==
    IF k > Len(valid) THEN latest
    ELSE LET c == CompareFrom(Split(valid[k].normalized, "."),
                              Split(latest.normalized, "."), 1)
         IN IF c = "error" THEN ErrorEntry
            ELSE NewestFrom(IF c = "newer" THEN valid[k] ELSE latest,
                            valid, k + 1)

RECURSIVE GetLatestVersionAt(_, _, _)
RECURSIVE FormatMatch(_, _, _, _, _)

\* the loop "for ver, norm_ver in valid_versions" of the format check
FormatMatch(latest, valid, k, version_pattern, depth) ==
    IF k > Len(valid) THEN latest.original
    ELSE IF IsVersionSimilar(valid[k].original, version_pattern)
    THEN LET nested == GetLatestVersionAt(
                           <<latest.original, valid[k].original>>,
                           version_pattern, depth + 1)
         IN IF IsError(nested) THEN nested
            ELSE IF nested = valid[k].original THEN valid[k].original
            ELSE FormatMatch(latest, valid, k + 1, version_pattern, depth)
    ELSE FormatMatch(latest, valid, k + 1, version_pattern, depth)

\* get_latest_version(versions) in a frame of the given depth,
\* version_pattern being that of self.package_config
GetLatestVersionAt(versions, version_pattern, depth) ==
    IF depth > RecursionLimit THEN RecursionErrorT
    ELSE IF versions = <<>> THEN NoneT
    ELSE IF Len(versions) = 1 THEN versions[1]
    ELSE LET valid == ValidVersions(versions)
         IN IF valid = <<>> THEN NoneT
            ELSE IF Len(valid) = 1 THEN valid[1].original
            ELSE LET latest == NewestFrom(valid[1], valid, 2)
                 IN IF latest = ErrorEntry THEN ValueErrorT
                    ELSE IF Truthy(version_pattern)
                            /\ ~IsVersionSimilar(latest.original,
                                                 version_pattern)
                    THEN FormatMatch(latest, valid, 1, version_pattern, depth)
                    ELSE latest.original

GetLatestVersion(versions, version_pattern) ==
    GetLatestVersionAt(versions, version_pattern, 1)

(***************************************************************************)
(* re.search(r'(?:v|V)?(\d+(?:\.\d+)+)', text).group(1): the leftmost run  *)
(* of digits that is followed by at least one ".digits" group, taken with  *)
(* all the groups that follow.                                             *)
(***************************************************************************)
RECURSIVE DigitRunEnd(_, _)
DigitRunEnd(t, i) ==
    IF i + 1 <= Len(t) /\ IsDigit(t[i + 1]) THEN DigitRunEnd(t, i + 1) ELSE i

RECURSIVE DottedEnd(_, _)
DottedEnd(t, j) ==
    IF j + 2 <= Len(t) /\ t[j + 1] = "." /\ IsDigit(t[j + 2])
    THEN DottedEnd(t, DigitRunEnd(t, j + 2))
    ELSE j

RECURSIVE SearchDotted(_, _)
SearchDotted(t, i) ==
    IF i > Len(t) THEN NoneT
    ELSE IF IsDigit(t[i])
         THEN LET j == DigitRunEnd(t, i)
                  e == DottedEnd(t, j)
              IN IF e > j THEN SubSeq(t, i, e) ELSE SearchDotted(t, j + 1)
         ELSE SearchDotted(t, i + 1)

(***************************************************************************)
(* UpstreamGithubChecker (UpstreamGiteeChecker has the same steps).  The   *)
(* texts of the model hold the upper-case letters A and P only.            *)
(***************************************************************************)
LowerChar(c) == CASE c = "A" -> "a" [] c = "P" -> "p" [] OTHER -> c

\* str.lower()
Lower(t) == [i \in 1..Len(t) |-> LowerChar(t[i])]

Letters ==
    {"a", "b", "c", "d", "e", "f", "g", "h", "i", "j", "k", "l", "m",
     "n", "o", "p", "q", "r", "s", "t", "u", "v", "w", "x", "y", "z",
     "A", "B", "C", "D", "E", "F", "G", "H", "I", "J", "K", "L", "M",
     "N", "O", "P", "Q", "R", "S", "T", "U", "V", "W", "X", "Y", "Z"}

\* _format_version: a leading "v" is removed
FormatVersion(version_str) ==
    IF Truthy(version_str) /\ Head(version_str) = "v"
    THEN Tail(version_str) ELSE version_str

SpecialTags ==
    {<<"l", "a", "t", "e", "s", "t">>,
     <<"c", "u", "r", "r", "e", "n", "t">>,
     <<"s", "t", "a", "b", "l", "e">>,
     <<"m", "a", "s", "t", "e", "r">>,
     <<"m", "a", "i", "n">>,
     <<"h", "e", "a", "d">>,
     <<"n", "i", "g", "h", "t", "l", "y">>,
     <<"n", "e", "x", "t">>}

\* position of the first "-" of t, 0 when there is none
FirstDash(t) ==
    IF \E i \in 1..Len(t) : t[i] = "-"
    THEN CHOOSE i \in 1..Len(t) : t[i] = "-" /\ \A j \in 1..(i - 1) : t[j] # "-"
    ELSE 0

\* _is_valid_version: not a special tag, and ^\d+(\.\d+){1,2}(-[a-zA-Z0-9]+)?$
\* (the two patterns tried before it match a part of what it matches)
IsValidVersion(version_str) ==
    /\ Truthy(version_str)
    /\ Lower(version_str) \notin SpecialTags
    /\ LET dash == FirstDash(version_str)
           main == IF dash = 0 THEN version_str
                   ELSE SubSeq(version_str, 1, dash - 1)
           suffix == SubSeq(version_str, dash + 1, Len(version_str))
           parts == Split(main, ".")
       IN /\ Len(parts) \in 2..3
          /\ \A k \in 1..Len(parts) : IsDigitStr(parts[k])
          /\ dash # 0 =>
                /\ suffix # <<>>
                /\ \A k \in 1..Len(suffix) : suffix[k] \in Letters \cup Digits

\* the first n parts joined with "."
RECURSIVE JoinParts(_, _)
JoinParts(parts, n) ==
    IF n = 1 THEN parts[1]
    ELSE JoinParts(parts, n - 1) \o <<".">> \o parts[n]

\* _extract_version_from_filename: re.search(r"(\d+\.\d+\.\d+|\d+\.\d+)"),
\* whose match is always a valid version; the patterns tried when it finds
\* nothing all contain \d+\.\d+ and find nothing either
ExtractVersionFromFilename(filename) ==
    LET m == SearchDotted(filename, 1)
    IN IF m = NoneT THEN NoneT
       ELSE LET parts == Split(m, ".")
            IN JoinParts(parts, IF Len(parts) > 3 THEN 3 ELSE Len(parts))

\* the versions of the files that yield one
RECURSIVE VersionsOfFiles(_)
VersionsOfFiles(files) ==
    IF files = <<>> THEN <<>>
    ELSE LET version == ExtractVersionFromFilename(Head(files))
         IN (IF version = NoneT THEN <<>> ELSE <<version>>)
            \o VersionsOfFiles(Tail(files))

\* clean_key.lower() in f["filename"].lower()
HasKey(filename, version_extract_key) ==
    LET clean_key == IF version_extract_key # <<>>
                        /\ Head(version_extract_key) = "."
                     THEN Tail(version_extract_key) ELSE version_extract_key
    IN IsSubstring(Lower(clean_key), Lower(filename))

NoVersionInfo == [version |-> NoneT, all_versions |-> <<>>]

\* _extract_version_from_files, version_pattern being that of the
\* version_processor's package_config
ExtractVersionFromFiles(files, version_extract_key, version_pattern) ==
    LET keyed == SelectSeq(files, LAMBDA f : HasKey(f, version_extract_key))
        filtered_files == IF Truthy(version_extract_key) /\ keyed # <<>>
                          THEN keyed ELSE files
        versions == VersionsOfFiles(filtered_files)
    IN IF versions = <<>> THEN NoVersionInfo
       ELSE [version |-> GetLatestVersion(versions, version_pattern),
             all_versions |-> versions]

CreateResult(success, version, all_versions, source) ==
    [success |-> success, version |-> version, all_versions |-> all_versions,
     source |-> source]

\* steps 2 and 3 of check_version: the tag of the release, then the latest tag
GithubTagSteps(in) ==
    IF Truthy(in.release_tag) /\ IsValidVersion(FormatVersion(in.release_tag))
    THEN CreateResult(TRUE, FormatVersion(in.release_tag),
                      <<FormatVersion(in.release_tag)>>, "release")
    ELSE IF Truthy(in.latest_tag)
            /\ IsValidVersion(FormatVersion(in.latest_tag))
    THEN CreateResult(TRUE, FormatVersion(in.latest_tag),
                      <<FormatVersion(in.latest_tag)>>, "tag")
    ELSE CreateResult(FALSE, NoneT, <<>>, "none")

\* check_version for a URL that names a repository; release_tag is NoneT
\* when the repository has no release, files are the assets of the release
GithubCheckVersion(in) ==
    IF Truthy(in.version_extract_key) /\ Truthy(in.release_tag)
       /\ in.files # <<>>
    THEN LET version_info == ExtractVersionFromFiles(in.files,
                                 in.version_extract_key, in.version_pattern)
         IN IF version_info = NoVersionInfo THEN GithubTagSteps(in)
            ELSE IF IsError(version_info.version)
            THEN CreateResult(FALSE, NoneT, <<>>, "error")
            ELSE CreateResult(TRUE, version_info.version,
                              version_info.all_versions, "assets")
    ELSE GithubTagSteps(in)

(***************************************************************************)
(* MainCheckerModule._analyze_aur_version_pattern, the value it stores in  *)
(* package_info["version_pattern"].  The reference versions of the model   *)
(* are dotted-numeric, so that the first four rules decide (two to five    *)
(* segments); the other rules and the default are not modelled.            *)
(***************************************************************************)
PatternNames ==
    <<NoneT,
      <<"a", ".", "b">>,
      <<"a", ".", "b", ".", "c">>,
      <<"a", ".", "b", ".", "c", ".", "d">>,
      <<"a", ".", "b", ".", "c", ".", "d", ".", "e">>>>

AnalyzeAurVersionPattern(aur_version) ==
    IF ~Truthy(aur_version) THEN NoneT
    ELSE LET parts == Split(aur_version, ".")
         IN IF Len(parts) \in 2..5 /\ \A i \in 1..Len(parts) : IsDigitStr(parts[i])
            THEN PatternNames[Len(parts)]
            ELSE <<"u", "n", "k", "n", "o", "w", "n">>

\* the extraction regex the same rule stores in
\* package_info["version_pattern_regex"]: "(" \d+ \. \d+ ... ")"
DigitsRe == <<"\\", "d", "+">>
DotRe == <<"\\", ".">>

RECURSIVE DottedRe(_)
DottedRe(n) == IF n = 1 THEN DigitsRe ELSE DottedRe(n - 1) \o DotRe \o DigitsRe

DefaultRegex ==
    <<"(">> \o DottedRe(3) \o <<"(", "?", ":">> \o DotRe \o DigitsRe
            \o <<")", "*", ")">>

AnalyzeAurVersionRegex(aur_version) ==
    IF ~Truthy(aur_version) THEN NoneT
    ELSE LET parts == Split(aur_version, ".")
         IN IF Len(parts) \in 2..5 /\ \A i \in 1..Len(parts) : IsDigitStr(parts[i])
            THEN <<"(">> \o DottedRe(Len(parts)) \o <<")">>
            ELSE DefaultRegex

(***************************************************************************)
(* UpstreamRedirectChecker.  The regular expressions of check_version are  *)
(* searched as re.search does: the leftmost position that matches, the     *)
(* runs of digits being greedy.                                            *)
(***************************************************************************)
\* no constraint on the character before or after a match
AnyChar == {}

\* the end of \d+(?:\.\d+){n-1} matched at position i, or 0
RECURSIVE DottedN(_, _, _)
DottedN(t, i, n) ==
    IF i > Len(t) \/ ~IsDigit(t[i]) THEN 0
    ELSE LET j == DigitRunEnd(t, i)
         IN IF n = 1 THEN j
            ELSE IF j + 2 <= Len(t) /\ t[j + 1] = "." THEN DottedN(t, j + 2, n - 1)
            ELSE 0

\* the leftmost position of Starts, or 0
Leftmost(Starts) ==
    IF Starts = {} THEN 0 ELSE CHOOSE i \in Starts : \A k \in Starts : i <= k

\* re.search of [pre](\d+(?:\.\d+){n-1})[suf]; startok and endok stand for
\* the alternatives ^ and $ of the context
ReSearchDotted(t, n, pre, startok, suf, endok) ==
    LET Ok(i) ==
            /\ \/ pre = AnyChar
               \/ i > 1 /\ t[i - 1] \in pre
               \/ startok /\ i = 1
            /\ LET e == DottedN(t, i, n)
               IN /\ e # 0
                  /\ \/ suf = AnyChar
                     \/ e < Len(t) /\ t[e + 1] \in suf
                     \/ endok /\ e = Len(t)
        i == Leftmost({k \in 1..Len(t) : Ok(k)})
    IN IF i = 0 THEN NoneT ELSE SubSeq(t, i, DottedN(t, i, n))

\* re.search of [pre](\d+[mid]\d+) followed by "." when dotafter
ReSearchLettered(t, pre, mid, dotafter) ==
    LET End(i) ==
            IF ~IsDigit(t[i]) THEN 0
            ELSE LET j == DigitRunEnd(t, i)
                 IN IF j + 2 <= Len(t) /\ t[j + 1] \in mid /\ IsDigit(t[j + 2])
                    THEN DigitRunEnd(t, j + 2) ELSE 0
        Ok(i) ==
            /\ pre = AnyChar \/ (i > 1 /\ t[i - 1] \in pre)
            /\ End(i) # 0
            /\ dotafter => End(i) < Len(t) /\ t[End(i) + 1] = "."
        i == Leftmost({k \in 1..Len(t) : Ok(k)})
    IN IF i = 0 THEN NoneT ELSE SubSeq(t, i, End(i))

\* re.search(version_pattern_regex, text).group(1) for the expressions
\* that _analyze_aur_version_pattern stores
ReSearch(version_pattern_regex, t) ==
    IF version_pattern_regex = DefaultRegex
    THEN LET first == ReSearchDotted(t, 3, AnyChar, FALSE, AnyChar, FALSE)
         IN IF first = NoneT THEN NoneT
            ELSE LET i == Leftmost({k \in 1..Len(t) : DottedN(t, k, 3) # 0})
                 IN SubSeq(t, i, DottedEnd(t, DottedN(t, i, 3)))
    ELSE ReSearchDotted(t, Len(version_pattern_regex) \div 5, AnyChar, FALSE,
                        AnyChar, FALSE)

\* redirect_url.split('/')[-1]
FilenameOf(redirect_url) ==
    LET parts == Split(redirect_url, "/") IN parts[Len(parts)]

\* lines 67-72: re.escape(version_extract_key) + (\d+(?:\.\d+)*)
KeyStep(in) ==
    LET key == in.version_extract_key
        t == in.location
        Starts == {k \in 1..(Len(t) - Len(key)) :
                      /\ SubSeq(t, k, k + Len(key) - 1) = key
                      /\ IsDigit(t[k + Len(key)])}
        i == Leftmost(Starts)
    IN IF ~Truthy(key) \/ i = 0 THEN NoneT
       ELSE SubSeq(t, i + Len(key),
                   DottedEnd(t, DigitRunEnd(t, i + Len(key))))

\* a match of the caller's expression or of a backup pattern is returned
\* when it cannot be verified or when it is similar to the version_pattern
Passes(in, version) ==
    IF Truthy(in.aur_version) /\ in.main_checker
    THEN IsVersionSimilar(version, in.version_pattern)
    ELSE TRUE

\* lines 78-97 and 121-138
RegexStep(in, text) ==
    IF ~Truthy(in.version_pattern_regex) THEN NoneT
    ELSE LET version == ReSearch(in.version_pattern_regex, text)
         IN IF version # NoneT /\ Passes(in, version) THEN version ELSE NoneT

\* lines 143-150
ExactStep(in) ==
    LET aur_version == in.aur_version
        t == in.location
        n == Len(aur_version)
    IN IF Truthy(aur_version)
          /\ \E i \in 1..(Len(t) - n + 1) :
                /\ SubSeq(t, i, i + n - 1) = aur_version
                /\ i = 1 \/ ~IsDigit(t[i - 1])
                /\ i + n - 1 = Len(t) \/ ~IsDigit(t[i + n])
       THEN aur_version ELSE NoneT

\* lines 102-116 and 153-168: the match is returned whether it is similar
\* to the version_pattern or not
DynamicStep(in) ==
    IF ~Truthy(in.aur_version) THEN NoneT
    ELSE LET parts_count == Len(Split(in.aur_version, "."))
         IN IF parts_count > 1
            THEN ReSearchDotted(in.location, parts_count, {"/"}, TRUE,
                                {"/"}, TRUE)
            ELSE NoneT

\* backup_patterns, in the order of the list
BackupMatches(filename) ==
    <<ReSearchDotted(filename, 5, {"-", "_"}, FALSE, {"-", "/", ".", "_"}, FALSE),
      ReSearchDotted(filename, 4, {"-", "_"}, FALSE, {"-", "/", ".", "_"}, FALSE),
      ReSearchDotted(filename, 3, {"-", "_"}, FALSE, {"-", "/", ".", "_"}, FALSE),
      ReSearchDotted(filename, 5, {"-", "/"}, FALSE, {"-", "/"}, TRUE),
      ReSearchDotted(filename, 4, {"-", "/"}, FALSE, {"-", "/"}, TRUE),
      ReSearchDotted(filename, 3, {"-", "/"}, FALSE, {"-", "/"}, TRUE),
      ReSearchDotted(filename, 5, {"_"}, FALSE, {"_"}, FALSE),
      ReSearchDotted(filename, 4, {"_"}, FALSE, {"_"}, FALSE),
      ReSearchDotted(filename, 5, AnyChar, FALSE, AnyChar, FALSE),
      ReSearchDotted(filename, 4, AnyChar, FALSE, AnyChar, FALSE),
      ReSearchDotted(filename, 3, AnyChar, FALSE, AnyChar, FALSE),
      ReSearchLettered(filename, AnyChar, {"v"}, FALSE),
      ReSearchLettered(filename, Letters, {"v"}, TRUE),
      ReSearchLettered(filename, {"-", "_"}, Letters, FALSE)>>

\* lines 188-206
BackupStep(in) ==
    LET found == SelectSeq(BackupMatches(FilenameOf(in.location)),
                           LAMBDA version : version # NoneT /\ Passes(in, version))
    IN IF found = <<>> THEN NoneT ELSE found[1]

RedirectResult(version, success, message) ==
    [version |-> version, success |-> success, message |-> message]

\* the value of the first step of steps that yields one, with its message
FirstYield(steps) ==
    LET found == SelectSeq(steps, LAMBDA step : step[1] # NoneT)
    IN IF found = <<>> THEN RedirectResult(NoneT, FALSE, "no version")
       ELSE RedirectResult(found[1][1], TRUE, found[1][2])

\* UpstreamRedirectChecker.check_version for a response of the given status
\* whose Location header is an absolute URL, or is missing
RedirectCheckVersion(in) ==
    IF in.status \notin {301, 302, 303, 307, 308}
    THEN RedirectResult(NoneT, FALSE, "not redirected")
    ELSE IF ~Truthy(in.location)
    THEN RedirectResult(NoneT, FALSE, "no Location")
    ELSE FirstYield(
            <<<<KeyStep(in), "key">>,
              <<RegexStep(in, in.location), "regex url">>,
              <<IF Truthy(in.version_pattern_regex) THEN DynamicStep(in)
                ELSE NoneT, "dynamic">>,
              <<RegexStep(in, FilenameOf(in.location)), "regex filename">>,
              <<ExactStep(in), "exact">>,
              <<DynamicStep(in), "dynamic">>,
              <<BackupStep(in), "backup">>>>)

(***************************************************************************)
(* Results of check_version (a dict, or something else) and of             *)
(* check_single_upstream_version.                                          *)
(***************************************************************************)
RawDict(has_success, success, version, upstream_version, message) ==
    [dict |-> TRUE, has_success |-> has_success, success |-> success,
     version |-> version, upstream_version |-> upstream_version,
     message |-> message]

RawNotDict ==
    [dict |-> FALSE, has_success |-> FALSE, success |-> FALSE,
     version |-> NoneT, upstream_version |-> NoneT, message |-> "not a dict"]

NoRaw == [RawNotDict EXCEPT !.message = "none"]

Resolution(name, success, upstream_version, message) ==
    [name |-> name, success |-> success,
     upstream_version |-> upstream_version, message |-> message]

NoResult == Resolution(0, FALSE, NoneT, "none")

(***************************************************************************)
(* UpstreamJsonChecker.  The document is {"version": ..., "tag": ...}, a   *)
(* field being absent, a string, or a nested object holding one string.    *)
(***************************************************************************)
Leaf(kind, text) == [kind |-> kind, text |-> text]
Absent == Leaf("absent", <<>>)

JsonDoc(fetched, version, tag) ==
    [fetched |-> fetched, version |-> version, tag |-> tag]

\* _fetch_json_data returned None
NoDoc == JsonDoc(FALSE, Absent, Absent)

\* str(value)
StrOfLeaf(leaf) ==
    IF leaf.kind = "obj" THEN <<"{">> \o leaf.text \o <<"}">> ELSE leaf.text

\* str(data): the values in key order (key names hold no digit and no dot)
StrOfData(data) ==
    <<"{">>
    \o (IF data.version = Absent THEN <<>> ELSE StrOfLeaf(data.version))
    \o <<",">>
    \o (IF data.tag = Absent THEN <<>> ELSE StrOfLeaf(data.tag))
    \o <<"}">>

FieldOf(data, key) == IF key = "version" THEN data.version ELSE data.tag

\* _extract_by_path for a one-part path without brackets
ExtractByPath(data, path) ==
    IF path = "" THEN NoneT
    ELSE IF path \notin {"version", "tag"} THEN NoneT
    ELSE LET current == FieldOf(data, path)
         IN IF current.kind = "str" THEN current.text ELSE NoneT

\* _extract_version_from_string(text), version_pattern being that of
\* self.package_config (it is a pattern name without "x", a literal)
ExtractVersionFromString(text, version_pattern) ==
    IF text = <<>> THEN NoneT
    ELSE IF Truthy(version_pattern) /\ IsSubstring(version_pattern, text)
    THEN version_pattern
    ELSE SearchDotted(text, 1)

\* _build_result
BuildResult(processed_version) ==
    RawDict(TRUE, TRUE, processed_version, processed_version, "json ok")

JsonFailure(message) == RawDict(TRUE, FALSE, NoneT, NoneT, message)

\* processed_version of a found version; aur_version is set
Processed(version) == NormalizeVersion(Strip(version))

(***************************************************************************)
(* UpstreamJsonChecker.check_version with version_pattern_regex = None     *)
(* and a non-empty aur_version, as check_single_upstream_version calls it  *)
(* for a record read from storage.                                         *)
(***************************************************************************)
JsonCheckVersion(data, key, version_pattern, config_pattern) ==
    IF ~data.fetched \/ (data.version = Absent /\ data.tag = Absent)
    THEN JsonFailure("no data")
    ELSE
    LET version == ExtractByPath(data, key)
        found == ExtractVersionFromString(StrOfData(data), config_pattern)
    IN
    IF Truthy(version)
    THEN IF Truthy(version_pattern)
            /\ ~IsVersionSimilar(Processed(version), version_pattern)
            /\ Truthy(found)
         THEN BuildResult(Processed(found))
         ELSE BuildResult(Processed(version))
    ELSE IF data.version # Absent
    THEN BuildResult(Processed(StrOfLeaf(data.version)))
    ELSE IF Truthy(found)
    THEN BuildResult(Processed(found))
    ELSE JsonFailure("no version path")

(***************************************************************************)
(* Strategy selection of check_single_upstream_version.  A URL is one of   *)
(* the literals below; InUrl is "sig in url" and InLowerUrl is             *)
(* "sig in url.lower()" for them.                                          *)
(***************************************************************************)
KnownCheckers ==
    {"github", "gitlab", "pypi", "common", "gitee", "json", "redirect",
     "curl", "playwright", "npm"}

Urls ==
    {"",
     "https://github.com/acme/widget",
     "https://GitHub.com/acme/widget",
     "https://gitlab.com/acme/widget",
     "https://GitLab.example.org/acme/widget",
     "https://angl.io/widget",
     "https://gitlab.com/mirror/github.com-widget",
     "https://pypi.org/project/widget",
     "https://www.python.org/pypi/widget",
     "https://example.org/widget"}

InUrl(sig, url) ==
    CASE sig = "github.com" ->
            url \in {"https://github.com/acme/widget",
                     "https://gitlab.com/mirror/github.com-widget"}
      [] sig = "pypi.org" -> url = "https://pypi.org/project/widget"
      [] sig = "python.org/pypi" -> url = "https://www.python.org/pypi/widget"
      [] OTHER -> FALSE

InLowerUrl(sig, url) ==
    CASE sig = "gitlab.com" ->
            url \in {"https://gitlab.com/acme/widget",
                     "https://gitlab.com/mirror/github.com-widget"}
      [] sig = "gitlab." ->
            url \in {"https://gitlab.com/acme/widget",
                     "https://GitLab.example.org/acme/widget",
                     "https://gitlab.com/mirror/github.com-widget"}
      [] sig = "gl." -> url = "https://angl.io/widget"
      [] OTHER -> FALSE

\* _is_gitlab_url
IsGitlabUrl(url) ==
    \E domain \in {"gitlab.com", "gitlab.", "gl."} : InLowerUrl(domain, url)

SelectCheckerUrlOnly(checker_type, upstream_url) ==
    IF InUrl("github.com", upstream_url) THEN "github"
    ELSE IF IsGitlabUrl(upstream_url) THEN "gitlab"
    ELSE IF InUrl("pypi.org", upstream_url)
            \/ InUrl("python.org/pypi", upstream_url) THEN "pypi"
    ELSE "common"

SelectChecker(checker_type, upstream_url) ==
    IF checker_type # "" /\ checker_type \in KnownCheckers THEN checker_type
    ELSE IF InUrl("github.com", upstream_url) THEN "github"
    ELSE IF IsGitlabUrl(upstream_url) THEN "gitlab"
    ELSE IF InUrl("pypi.org", upstream_url)
            \/ InUrl("python.org/pypi", upstream_url) THEN "pypi"
    ELSE "common"

(***************************************************************************)
(* The options of check_version and the exception handlers.                *)
(***************************************************************************)
OptNames == {"version_extract_key", "aur_version", "version_pattern"}

\* extra_args
ExtraArgs(key, aur_version, version_pattern) ==
    (IF key # "" THEN {"version_extract_key"} ELSE {})
    \cup (IF Truthy(aur_version) THEN {"aur_version"} ELSE {})
    \cup (IF Truthy(version_pattern) THEN {"version_pattern"} ELSE {})

\* basic_args
BasicArgs(key) == IF key # "" THEN {"version_extract_key"} ELSE {}

\* "except TypeError" and "except Exception"
ExceptTypeError(kind) == kind = "TypeError"
ExceptExceptionNarrow(kind) == kind = "TypeError"
ExceptException(kind) == kind \in {"TypeError", "Error"}

(***************************************************************************)
(* Normalisation of the strategy's result in                               *)
(* check_single_upstream_version.                                          *)
(***************************************************************************)
\* not a dict
Coerced(r) ==
    IF r.dict THEN r ELSE RawDict(TRUE, FALSE, NoneT, NoneT, "invalid format")

\* "success" not in result
WithSuccess(r) ==
    IF r.has_success THEN r
    ELSE LET version == Or(r.version, r.upstream_version)
         IN RawDict(TRUE, Truthy(version), version, version, r.message)

\* the versions passed to update_upstream_version
HookVersions(r) ==
    LET n == WithSuccess(Coerced(r))
    IN IF Truthy(n.version) THEN <<n.version>> ELSE <<>>

NormalizeResult(name, r) ==
    LET n == WithSuccess(Coerced(r))
    IN Resolution(name, n.success, Or(n.version, n.upstream_version),
                  n.message)


(***************************************************************************)
(* Inputs of a resolution: the record, what storage holds for it, and what *)
(* the selected strategy and the network do.                               *)
(***************************************************************************)
Recs == 1..NumRecs

CheckerTypes == {"", "json", "pypi"}
BatchUrls == {"", "https://github.com/acme/widget"}
ExtractKeys == {"", "tag"}
AurVersions == {NoneT, <<"1", ".", "2", ".", "1">>}
AcceptSets == {OptNames, {"version_extract_key"}, {}}

PackageInfos ==
    [checker_type : CheckerTypes, upstream_url : BatchUrls,
     version_extract_key : ExtractKeys, aur_version : AurVersions,
     db_raises : BOOLEAN, accepts : AcceptSets]

\* records of two reference shapes for the strategies that share a checker
ShapedPackageInfos ==
    [checker_type : {"", "json"},
     upstream_url : {"https://github.com/acme/widget"},
     version_extract_key : {""},
     aur_version : {<<"1", ".", "2">>, <<"1", ".", "2", ".", "1">>},
     db_raises : {FALSE}, accepts : {OptNames}]

VersionLeaves ==
    {Absent,
     Leaf("str", <<"v", "1", ".", "2", ".", "1">>),
     Leaf("str", <<"l", "a", "t", "e", "s", "t">>),
     Leaf("obj", <<"1", ".", "2", ".", "1">>)}

TagLeaves ==
    {Absent,
     Leaf("str", <<"1", ".", "2">>)}

\* the fetch fails, or it returns a document with one field at least
JsonDocs ==
    {NoDoc}
    \cup ({JsonDoc(TRUE, v, t) : v \in VersionLeaves, t \in TagLeaves}
          \ {JsonDoc(TRUE, Absent, Absent)})

\* what a strategy other than the JSON one may return
StrategyReturns ==
    LET v == <<"1", ".", "2", ".", "2">>
    IN {RawDict(TRUE, TRUE, v, v, "ok"),
        RawDict(FALSE, FALSE, NoneT, v, "ok"),
        RawDict(TRUE, TRUE, NoneT, v, "ok"),
        RawNotDict}

ExceptionKinds == {"TypeError", "Error"}

\* the fields of package_info and db_package_info read after selection;
\* version_pattern_regex is the local variable of line 82, the argument of
\* every check_version call, and info_regex is
\* package_info["version_pattern_regex"]
NoPkg ==
    [row |-> FALSE, version_extract_key |-> "", aur_version |-> NoneT,
     version_pattern |-> NoneT, accepts |-> OptNames, data |-> NoDoc,
     version_pattern_regex |-> NoneT, info_regex |-> NoneT]

\* package_info as the analysis of an earlier resolution has left it
Entered(i) ==
    [NoPkg EXCEPT !.version_pattern_regex = pkg[i].info_regex,
                  !.info_regex = pkg[i].info_regex]

\* db_package_info and db_package_info.get("aur_version")
HasAurVersionAlways(aur_version) == TRUE
HasAurVersion(aur_version) == Truthy(aur_version)

NoFnIn == [checker_type |-> "", upstream_url |-> ""]

InitResolve ==
    /\ batch = "idle"
    /\ batch_results = <<>>
    /\ rpc = [i \in Recs |-> "new"]
    /\ pkg = [i \in Recs |-> NoPkg]
    /\ checker = [i \in Recs |-> ""]
    /\ calls = [i \in Recs |-> <<>>]
    /\ raised = [i \in Recs |-> <<>>]
    /\ raw = [i \in Recs |-> NoRaw]
    /\ result = [i \in Recs |-> NoResult]
    /\ hook_calls = [i \in Recs |-> <<>>]
    /\ package_config = [c \in KnownCheckers |-> NoneT]

(***************************************************************************)
(* DatabaseModule: the row of one package, the query cache and the threads *)
(* that read and write the row.  A row is its presence and the number of   *)
(* the write that produced it; the entries of the cache that are older     *)
(* than _cache_ttl are the ones CacheExpire removes.                       *)
(***************************************************************************)
Queries ==
    {"get_package_by_name", "get_packages_by_names", "get_all_packages"}

ReaderIds == 1..NumReaders

Row(present, seq) == [present |-> present, seq |-> seq]

NoEntry == [cached |-> FALSE, row |-> Row(FALSE, 0)]
Entry(row) == [cached |-> TRUE, row |-> row]

Idle == [pc |-> "idle", query |-> "get_package_by_name",
         row |-> Row(FALSE, 0), floor |-> 0]

InitDatabase ==
    /\ packages = Row(FALSE, 0)
    /\ query_cache = [q \in Queries |-> NoEntry]
    /\ reader = [r \in ReaderIds |-> Idle]
    /\ writer = "idle"

\* the number of the last write whose call has returned
Committed ==
    IF writer \in {"update_return", "clear"} /\ packages.seq > 0
    THEN packages.seq - 1 ELSE packages.seq

\* execute_cached, lines 298-304: a fresh entry is returned, otherwise the
\* query is to be executed
ReadStart(r, q) ==
    /\ reader[r].pc = "idle"
    /\ reader' = [reader EXCEPT ![r] =
          IF query_cache[q].cached
          THEN [pc |-> "returned", query |-> q, row |-> query_cache[q].row,
                floor |-> Committed]
          ELSE [pc |-> "miss", query |-> q, row |-> Row(FALSE, 0),
                floor |-> Committed]]
    /\ UNCHANGED <<packages, query_cache, writer>>
    /\ UNCHANGED <<evars, rvars, bvars>>

\* execute_cached, lines 307-308: self.execute and fetchall
ReadExecute(r) ==
    /\ reader[r].pc = "miss"
    /\ reader' = [reader EXCEPT ![r].pc = "fetched", ![r].row = packages]
    /\ UNCHANGED <<packages, query_cache, writer>>
    /\ UNCHANGED <<evars, rvars, bvars>>

\* execute_cached, lines 311-314: the result is stored and returned
ReadStore(r) ==
    /\ reader[r].pc = "fetched"
    /\ query_cache' = [query_cache EXCEPT ![reader[r].query] =
                          Entry(reader[r].row)]
    /\ reader' = [reader EXCEPT ![r].pc = "returned"]
    /\ UNCHANGED <<packages, writer>>
    /\ UNCHANGED <<evars, rvars, bvars>>

\* the caller has the result and the thread is free for its next read
ReadDone(r) ==
    /\ reader[r].pc = "returned"
    /\ reader' = [reader EXCEPT ![r] = Idle]
    /\ UNCHANGED <<packages, query_cache, writer>>
    /\ UNCHANGED <<evars, rvars, bvars>>

\* the entry is older than _cache_ttl, or _cleanup_expired_cache removed it
CacheExpire(q) ==
    /\ query_cache[q].cached
    /\ query_cache' = [query_cache EXCEPT ![q] = NoEntry]
    /\ UNCHANGED <<packages, reader, writer>>
    /\ UNCHANGED <<evars, rvars, bvars>>

\* add_package: INSERT through self.execute; the cache is left alone
AddPackage ==
    /\ writer = "idle"
    /\ ~packages.present
    /\ packages.seq < MaxWrites
    /\ packages' = Row(TRUE, packages.seq + 1)
    /\ UNCHANGED <<query_cache, reader, writer>>
    /\ UNCHANGED <<evars, rvars, bvars>>

\* delete_package: DELETE through self.execute; the cache is left alone
DeletePackage ==
    /\ writer = "idle"
    /\ packages.present
    /\ packages.seq < MaxWrites
    /\ packages' = Row(FALSE, packages.seq + 1)
    /\ UNCHANGED <<query_cache, reader, writer>>
    /\ UNCHANGED <<evars, rvars, bvars>>

\* get_package_by_name on the writing thread, taken as one step
CachedRow ==
    IF query_cache["get_package_by_name"].cached
    THEN query_cache["get_package_by_name"].row ELSE packages

CacheAfterRead ==
    [query_cache EXCEPT !["get_package_by_name"] = Entry(CachedRow)]

\* update_package, lines 451-454: existing_package
UpdatePackageCheck ==
    /\ writer = "idle"
    /\ packages.seq < MaxWrites
    /\ query_cache' = CacheAfterRead
    /\ writer' = IF CachedRow.present THEN "update_package" ELSE "idle"
    /\ UNCHANGED <<packages, reader>>
    /\ UNCHANGED <<evars, rvars, bvars>>

\* update_package, lines 485-491: UPDATE through self.execute
UpdatePackageWrite ==
    /\ writer = "update_package"
    /\ IF packages.present
       THEN /\ packages' = Row(TRUE, packages.seq + 1)
            /\ writer' = "update_return"
       ELSE /\ writer' = "idle"
            /\ UNCHANGED packages
    /\ UNCHANGED <<query_cache, reader>>
    /\ UNCHANGED <<evars, rvars, bvars>>

\* update_package, line 493: return self.get_package_by_name(name)
UpdatePackageReturn ==
    /\ writer = "update_return"
    /\ query_cache' = CacheAfterRead
    /\ writer' = "idle"
    /\ UNCHANGED <<packages, reader>>
    /\ UNCHANGED <<evars, rvars, bvars>>

\* update_aur_version and update_upstream_version: execute_many
UpdateVersionWrite ==
    /\ writer = "idle"
    /\ packages.present
    /\ packages.seq < MaxWrites
    /\ packages' = Row(TRUE, packages.seq + 1)
    /\ writer' = "clear"
    /\ UNCHANGED <<query_cache, reader>>
    /\ UNCHANGED <<evars, rvars, bvars>>

\* _clear_packages_cache: every key holds "FROM packages"
ClearPackagesCache ==
    /\ writer = "clear"
    /\ query_cache' = [q \in Queries |-> NoEntry]
    /\ writer' = "idle"
    /\ UNCHANGED <<packages, reader>>
    /\ UNCHANGED <<evars, rvars, bvars>>

DatabaseNext ==
    \/ \E r \in ReaderIds, q \in Queries : ReadStart(r, q)
    \/ \E r \in ReaderIds : ReadExecute(r)
    \/ \E r \in ReaderIds : ReadStore(r)
    \/ \E r \in ReaderIds : ReadDone(r)
    \/ \E q \in Queries : CacheExpire(q)
    \/ AddPackage
    \/ DeletePackage
    \/ UpdatePackageCheck
    \/ UpdatePackageWrite
    \/ UpdatePackageReturn
    \/ UpdateVersionWrite
    \/ ClearPackagesCache

(***************************************************************************)
(* BackgroundTaskManager (src/modules/thread_ui_helper.py).  The entries   *)
(* of the queue.PriorityQueue are (priority, task_id, ...) tuples; task    *)
(* ids are numbered in the order of the schedule_task calls.               *)
(***************************************************************************)
\* TaskPriority
LOW == 0
NORMAL == 1
HIGH == 2
CRITICAL == 3
TaskPriority == {LOW, NORMAL, HIGH, CRITICAL}

Workers == 1..MaxBgWorkers
NoTask == <<LOW, 0>>

InitBackground ==
    /\ bg_task_queue = {}
    /\ active_tasks = {}
    /\ results = {}
    /\ worker = [w \in Workers |-> NoTask]
    /\ scheduled = 0

\* the order of the tuples in the heap
EntryLess(a, b) == a[1] < b[1] \/ (a[1] = b[1] /\ a[2] < b[2])

\* PriorityQueue.get: heappop returns the smallest entry
QueueGet(entries) ==
    CHOOSE t \in entries : \A u \in entries \ {t} : EntryLess(t, u)

\* schedule_task(task_func, priority = priority)
ScheduleTask(priority) ==
    /\ scheduled < NumTasks
    /\ scheduled' = scheduled + 1
    /\ active_tasks' = active_tasks \cup {scheduled + 1}
    /\ bg_task_queue' = bg_task_queue \cup {<<priority, scheduled + 1>>}
    /\ UNCHANGED <<results, worker>>
    /\ UNCHANGED <<evars, rvars, dvars>>

\* _worker_loop: self._task_queue.get(timeout = 1.0) returns an entry
WorkerGet(w) ==
    /\ worker[w] = NoTask
    /\ bg_task_queue # {}
    /\ worker' = [worker EXCEPT ![w] = QueueGet(bg_task_queue)]
    /\ bg_task_queue' = bg_task_queue \ {QueueGet(bg_task_queue)}
    /\ UNCHANGED <<active_tasks, results, scheduled>>
    /\ UNCHANGED <<evars, rvars, dvars>>

\* _worker_loop: the task returned (ok) or raised; it leaves _active_tasks
WorkerFinish(w, ok) ==
    /\ worker[w] # NoTask
    /\ results' = IF ok THEN results \cup {worker[w][2]} ELSE results
    /\ active_tasks' = active_tasks \ {worker[w][2]}
    /\ worker' = [worker EXCEPT ![w] = NoTask]
    /\ UNCHANGED <<bg_task_queue, scheduled>>
    /\ UNCHANGED <<evars, rvars, dvars>>

BackgroundNext ==
    \/ \E priority \in TaskPriority : ScheduleTask(priority)
    \/ \E w \in Workers : WorkerGet(w)
    \/ \E w \in Workers, ok \in BOOLEAN : WorkerFinish(w, ok)

InitFn ==
    /\ fn_in = NoFnIn
    /\ fn_out = ""

\* the executor as constructed, but for max_concurrency
InitRest ==
    /\ requests_count = 0
    /\ elapsed = 0
    /\ task_queue = <<>>
    /\ queue_processing = FALSE
    /\ drain = "idle"
    /\ drain_item = DrainItem
    /\ poolq = <<>>
    /\ st = [o \in Ops |-> "new"]
    /\ retry_on_failure = [o \in Ops |-> TRUE]
    /\ retry_count = [o \in Ops |-> 0]
    /\ delays = [o \in Ops |-> <<>>]
    /\ current_concurrency = 0
    /\ cb_ok = [o \in Ops |-> 0]
    /\ cb_err = [o \in Ops |-> 0]
    /\ recent = [a \in 0..(Window - 1) |-> 0]
    /\ stats_total = 0
    /\ timed_out = [o \in Ops |-> FALSE]
    /\ transient = [o \in Ops |-> FALSE]
    /\ future = [o \in Ops |-> "none"]
    /\ InitResolve
    /\ InitDatabase
    /\ InitBackground

\* get_async_executor(logger): the default max_concurrency
Init ==
    /\ max_concurrency = DefaultMaxConcurrency
    /\ InitRest
    /\ InitFn

\* AsyncExecutor(max_concurrency = n), or configure(max_concurrency = n)
InitConfigured ==
    /\ max_concurrency \in 1..MaxConcurrencyArg
    /\ InitRest
    /\ InitFn

(***************************************************************************)
(* run_coroutine, first half: the rate-limit check.  When the check fails  *)
(* the task is appended to the queue under _queue_lock and the drain loop  *)
(* is started if it is not running.  Operations are numbered in the order  *)
(* of their run_coroutine calls, and at most Callers calls are between     *)
(* their check and their dispatch.  The retry_on_failure argument is drawn *)
(* where it is first read, in TaskFail.  The Future returned for a queued  *)
(* task is a fresh concurrent.futures.Future ("fresh"); the other return   *)
(* is the Future of ThreadPoolExecutor.submit ("submitted").               *)
(***************************************************************************)
RunCoroutineCheck(o) ==
    /\ st[o] = "new"
    /\ \A p \in Ops : p < o => st[p] # "new"
    /\ Cardinality({p \in Ops : st[p] = "checked"}) < Callers
    /\ IF CheckRateLimit
       THEN /\ requests_count' = CountAfterCheck
            /\ elapsed' = ElapsedAfterCheck
            /\ st' = [st EXCEPT ![o] = "checked"]
            /\ UNCHANGED <<task_queue, queue_processing, poolq, future>>
       ELSE /\ drain # "sleep"
            /\ task_queue' = Append(task_queue, o)
            /\ st' = [st EXCEPT ![o] = "queued"]
            /\ queue_processing' = TRUE
            /\ poolq' = IF queue_processing THEN poolq
                        ELSE Append(poolq, DrainItem)
            /\ future' = [future EXCEPT ![o] = "fresh"]
            /\ UNCHANGED <<requests_count, elapsed>>
    /\ UNCHANGED <<max_concurrency, drain, drain_item, retry_on_failure,
                   retry_count, delays, current_concurrency, cb_ok, cb_err,
                   recent, stats_total>>
    /\ UNCHANGED <<timed_out, transient, rvars, dvars, bvars>>

(***************************************************************************)
(* run_coroutine, second half: count the request and submit _run_task to   *)
(* the thread pool.                                                        *)
(***************************************************************************)
RunCoroutineDispatch(o) ==
    /\ st[o] = "checked"
    /\ requests_count' = requests_count + 1
    /\ poolq' = Append(poolq, o)
    /\ st' = [st EXCEPT ![o] = "pooled"]
    /\ recent' = [recent EXCEPT ![0] = @ + 1]
    /\ stats_total' = stats_total + 1
    /\ future' = [future EXCEPT ![o] = "submitted"]
    /\ UNCHANGED <<max_concurrency, elapsed, task_queue, queue_processing,
                   drain, drain_item, retry_on_failure, retry_count, delays,
                   current_concurrency, cb_ok, cb_err>>
    /\ UNCHANGED <<timed_out, transient, rvars, dvars, bvars>>

(***************************************************************************)
(* A free pool thread takes the oldest work item: the drain loop or a      *)
(* _run_task, which creates its own semaphore of max_concurrency permits   *)
(* and enters it.                                                          *)
(***************************************************************************)
PoolStart ==
    /\ poolq # <<>>
    /\ BusyWorkers < MaxWorkers
    /\ poolq' = Tail(poolq)
    /\ IF Head(poolq) = DrainItem
       THEN /\ drain' = "loop"
            /\ UNCHANGED <<st, current_concurrency>>
       ELSE /\ max_concurrency >= 1
            /\ st' = [st EXCEPT ![Head(poolq)] = "running"]
            /\ current_concurrency' = current_concurrency + 1
            /\ UNCHANGED drain
    /\ UNCHANGED <<max_concurrency, requests_count, elapsed, task_queue,
                   queue_processing, drain_item, retry_on_failure,
                   retry_count, delays, cb_ok, cb_err, recent, stats_total>>
    /\ UNCHANGED <<timed_out, transient, future, rvars, dvars, bvars>>

(***************************************************************************)
(* _run_task / _handle_success: the first await of the coroutine returned  *)
(* and the result passed validate_result.  The success callback is posted  *)
(* to the main thread.                                                     *)
(***************************************************************************)
TaskSucceed(o) ==
    /\ st[o] = "running"
    /\ current_concurrency' = current_concurrency - 1
    /\ cb_ok' = [cb_ok EXCEPT ![o] = @ + 1]
    /\ st' = [st EXCEPT ![o] = "done_ok"]
    /\ UNCHANGED <<max_concurrency, requests_count, elapsed, task_queue,
                   queue_processing, drain, drain_item, poolq,
                   retry_on_failure, retry_count, delays, cb_err, recent,
                   stats_total>>
    /\ UNCHANGED <<timed_out, transient, future, rvars, dvars, bvars>>

(***************************************************************************)
(* _handle_exception: retry (count it, compute the delay, sleep) while     *)
(* retries are left and allowed, otherwise post the error callback.        *)
(***************************************************************************)
HandleException(o, r) ==
    IF CanRetry(retry_count[o], r)
    THEN /\ retry_count' = [retry_count EXCEPT ![o] = @ + 1]
         /\ delays' = [delays EXCEPT
                         ![o] = Append(@, RetryDelayOf(retry_count[o] + 1))]
         /\ st' = [st EXCEPT ![o] = "backoff"]
         /\ UNCHANGED cb_err
    ELSE /\ cb_err' = [cb_err EXCEPT ![o] = @ + 1]
         /\ st' = [st EXCEPT ![o] = "done_fail"]
         /\ UNCHANGED <<retry_count, delays>>

(***************************************************************************)
(* _run_task: the first attempt raised, timed out or failed validation.    *)
(* r is the retry_on_failure argument the operation was submitted with.    *)
(***************************************************************************)
TaskFail(o, r) ==
    /\ st[o] = "running"
    /\ current_concurrency' = current_concurrency - 1
    /\ retry_on_failure' = [retry_on_failure EXCEPT ![o] = r]
    /\ HandleException(o, r)
    /\ UNCHANGED <<max_concurrency, requests_count, elapsed, task_queue,
                   queue_processing, drain, drain_item, poolq,
                   cb_ok, recent, stats_total>>
    /\ UNCHANGED <<timed_out, transient, future, rvars, dvars, bvars>>

\* "except Exception" of _run_task; asyncio.TimeoutError is an Exception
ExceptInRunTaskNoTimeout(kind) == kind = "Exception"
ExceptInRunTask(kind) == kind \in {"Exception", "TimeoutError"}

(***************************************************************************)
(* _run_task: asyncio.wait_for(wrapped_coro, timeout) expires during the   *)
(* first attempt.  wait_for cancels the wrapped coroutine, whose finally   *)
(* clause gives the concurrency count back, and raises TimeoutError; no    *)
(* result of the attempt reaches _handle_success.  TaskFail covers this    *)
(* step without recording the cause.                                       *)
(***************************************************************************)
TaskTimeout(o, r) ==
    /\ st[o] = "running"
    /\ current_concurrency' = current_concurrency - 1
    /\ retry_on_failure' = [retry_on_failure EXCEPT ![o] = r]
    /\ timed_out' = [timed_out EXCEPT ![o] = TRUE]
    /\ IF ExceptInRunTask("TimeoutError")
       THEN HandleException(o, r)
       ELSE /\ st' = [st EXCEPT ![o] = "done_fail"]
            /\ UNCHANGED <<retry_count, delays, cb_err>>
    /\ UNCHANGED <<max_concurrency, requests_count, elapsed, task_queue,
                   queue_processing, drain, drain_item, poolq,
                   cb_ok, recent, stats_total>>
    /\ UNCHANGED <<transient, future, rvars, dvars, bvars>>

(***************************************************************************)
(* _handle_exception after time.sleep(retry_delay): the recursive          *)
(* _run_task on the same pool thread.  It awaits task_context["coro"],     *)
(* the coroutine object the first attempt already awaited, which raises    *)
(* at once: the wrapper enters and leaves its semaphore without            *)
(* suspending, and _handle_exception runs again.                           *)
(***************************************************************************)
RetryAttempt(o) ==
    /\ st[o] = "backoff"
    /\ max_concurrency >= 1
    /\ HandleException(o, retry_on_failure[o])
    /\ UNCHANGED <<max_concurrency, requests_count, elapsed, task_queue,
                   queue_processing, drain, drain_item, poolq,
                   retry_on_failure, current_concurrency, cb_ok, recent,
                   stats_total>>
    /\ UNCHANGED <<timed_out, transient, future, rvars, dvars, bvars>>

(***************************************************************************)
(* _process_task_queue, one iteration under _queue_lock: stop when the     *)
(* queue is empty, sleep (holding the lock) when the rate limit refuses,   *)
(* otherwise pop the oldest task.                                          *)
(***************************************************************************)
DrainCheck ==
    /\ drain = "loop"
    /\ IF task_queue = <<>>
       THEN /\ queue_processing' = FALSE
            /\ drain' = "idle"
            /\ UNCHANGED <<requests_count, elapsed, task_queue, drain_item,
                           st>>
       ELSE IF ~CheckRateLimit
       THEN /\ drain' = "sleep"
            /\ UNCHANGED <<requests_count, elapsed, task_queue, drain_item,
                           st, queue_processing>>
       ELSE /\ requests_count' = CountAfterCheck
            /\ elapsed' = ElapsedAfterCheck
            /\ drain_item' = Head(task_queue)
            /\ task_queue' = Tail(task_queue)
            /\ st' = [st EXCEPT ![Head(task_queue)] = "popped"]
            /\ drain' = "holding"
            /\ UNCHANGED queue_processing
    /\ UNCHANGED <<max_concurrency, poolq, retry_on_failure, retry_count,
                   delays, current_concurrency, cb_ok, cb_err, recent, stats_total>>
    /\ UNCHANGED <<timed_out, transient, future, rvars, dvars, bvars>>

\* time.sleep(0.2) is over and the lock is released
DrainWake ==
    /\ drain = "sleep"
    /\ drain' = "loop"
    /\ UNCHANGED <<max_concurrency, requests_count, elapsed, task_queue,
                   queue_processing, drain_item, poolq, st,
                   retry_on_failure, retry_count, delays,
                   current_concurrency, cb_ok, cb_err, recent, stats_total>>
    /\ UNCHANGED <<timed_out, transient, future, rvars, dvars, bvars>>

(***************************************************************************)
(* _process_task_queue, second half of an iteration: count the request     *)
(* and submit _run_task for the popped task.                               *)
(***************************************************************************)
DrainDispatch ==
    /\ drain = "holding"
    /\ requests_count' = requests_count + 1
    /\ poolq' = Append(poolq, drain_item)
    /\ st' = [st EXCEPT ![drain_item] = "pooled"]
    /\ recent' = [recent EXCEPT ![0] = @ + 1]
    /\ drain_item' = DrainItem
    /\ drain' = "loop"
    /\ UNCHANGED <<max_concurrency, elapsed, task_queue, queue_processing,
                   retry_on_failure, retry_count, delays,
                   current_concurrency, cb_ok, cb_err, stats_total>>
    /\ UNCHANGED <<timed_out, transient, future, rvars, dvars, bvars>>

\* the clock advances by one tick
Tick ==
    /\ elapsed' = Min(elapsed + 1, Window + 1)
    /\ recent' = [a \in 0..(Window - 1) |->
                    IF a = 0 THEN 0 ELSE recent[a - 1]]
    /\ \/ elapsed' # elapsed
       \/ recent' # recent
    /\ UNCHANGED <<max_concurrency, requests_count, task_queue,
                   queue_processing, drain, drain_item, poolq, st,
                   retry_on_failure, retry_count, delays,
                   current_concurrency, cb_ok, cb_err, stats_total>>
    /\ UNCHANGED <<timed_out, transient, future, rvars, dvars, bvars>>

Next ==
    \/ \E o \in Ops : RunCoroutineCheck(o)
    \/ \E o \in Ops : RunCoroutineDispatch(o)
    \/ PoolStart
    \/ \E o \in Ops : TaskSucceed(o)
    \/ \E o \in Ops, r \in BOOLEAN : TaskFail(o, r)
    \/ \E o \in Ops : RetryAttempt(o)
    \/ DrainCheck
    \/ DrainWake
    \/ DrainDispatch
    \/ Tick

Spec == Init /\ [][Next]_vars

Fairness ==
    /\ WF_vars(\E o \in Ops : RunCoroutineCheck(o))
    /\ WF_vars(\E o \in Ops : RunCoroutineDispatch(o))
    /\ WF_vars(PoolStart)
    /\ WF_vars(\E o \in Ops, r \in BOOLEAN : TaskSucceed(o) \/ TaskFail(o, r))
    /\ WF_vars(\E o \in Ops : RetryAttempt(o))
    /\ WF_vars(DrainCheck)
    /\ WF_vars(DrainWake)
    /\ WF_vars(DrainDispatch)
    /\ WF_vars(Tick)

FairSpec == Init /\ [][Next]_vars /\ Fairness

ConfiguredSpec == InitConfigured /\ [][Next]_vars

\* the machine with the expiry of the timeout told apart from other failures
TimeoutNext ==
    \/ Next
    \/ \E o \in Ops, r \in BOOLEAN : TaskTimeout(o, r)

TimeoutSpec == Init /\ [][TimeoutNext]_vars

(***************************************************************************)
(* _run_task: the first attempt raised an exception that the operation     *)
(* would not raise if it were executed again (a transport fault).  The     *)
(* step is that of TaskFail; what the retries do is RetryAttempt.          *)
(***************************************************************************)
TaskFailTransient(o, r) ==
    /\ st[o] = "running"
    /\ current_concurrency' = current_concurrency - 1
    /\ retry_on_failure' = [retry_on_failure EXCEPT ![o] = r]
    /\ transient' = [transient EXCEPT ![o] = TRUE]
    /\ HandleException(o, r)
    /\ UNCHANGED <<max_concurrency, requests_count, elapsed, task_queue,
                   queue_processing, drain, drain_item, poolq,
                   cb_ok, recent, stats_total>>
    /\ UNCHANGED <<timed_out, future, rvars, dvars, bvars>>

\* the machine with the transient faults told apart from other failures
TransientNext ==
    \/ Next
    \/ \E o \in Ops, r \in BOOLEAN : TaskFailTransient(o, r)

TransientSpec == Init /\ [][TransientNext]_vars

(***************************************************************************)
(* MainCheckerModule.check_multiple_upstream_versions and                  *)
(* check_single_upstream_version.                                          *)
(***************************************************************************)
\* the options of the call that is in progress
CurrentOpts(i) == calls[i][Len(calls[i])]

\* the record's resolution ends with a failed result
Failed(i, message) ==
    /\ rpc' = [rpc EXCEPT ![i] = "done"]
    /\ result' = [result EXCEPT ![i] = Resolution(i, FALSE, NoneT, message)]
    /\ UNCHANGED batch

\* an exception leaves check_single_upstream_version: safe_check turns it
\* into a failed result, or it leaves gather
SafeCheck(i, kind) ==
    IF ExceptException(kind)
    THEN Failed(i, "safe_check")
    ELSE /\ batch' = "aborted"
         /\ rpc' = [rpc EXCEPT ![i] = "raised"]
         /\ UNCHANGED result

\* an exception reaches the handler of the outer try
OuterExcept(i, kind) ==
    IF ExceptException(kind) THEN Failed(i, "error") ELSE SafeCheck(i, kind)

\* the bulk read of the batch; the records are those of storage, so that the
\* merge changes no field, and a failed read is logged and ignored
BatchStart ==
    /\ batch = "idle"
    /\ batch' = "running"
    /\ UNCHANGED <<batch_results, rpc, pkg, checker, calls, raised, raw,
                   result, hook_calls, package_config, fn_in, fn_out, evars, dvars, bvars>>

\* safe_check(pkg_info) runs up to the first await; the tasks of the batch
\* start in the order of creation
ResolveBegin(i, p) ==
    /\ batch = "running"
    /\ rpc[i] = "new"
    /\ \A j \in Recs : j < i => rpc[j] # "new"
    /\ LET version_pattern == AnalyzeAurVersionPattern(p.aur_version)
           selected == SelectChecker(p.checker_type, p.upstream_url)
           read == [Entered(i) EXCEPT
                       !.row = TRUE,
                       !.info_regex = AnalyzeAurVersionRegex(p.aur_version),
                       !.version_extract_key = p.version_extract_key,
                       !.aur_version = p.aur_version,
                       !.version_pattern = version_pattern,
                       !.accepts = IF selected \in {"json", "pypi"}
                                   THEN OptNames ELSE p.accepts]
       IN IF p.db_raises
          THEN /\ SafeCheck(i, "Error")
               /\ UNCHANGED <<pkg, checker, calls, package_config>>
          ELSE IF ~HasAurVersion(p.aur_version)
          THEN /\ Failed(i, "no aur version")
               /\ pkg' = [pkg EXCEPT ![i] = [Entered(i) EXCEPT !.row = TRUE]]
               /\ UNCHANGED <<checker, calls, package_config>>
          ELSE IF p.upstream_url = ""
          THEN /\ Failed(i, "no upstream url")
               /\ pkg' = [pkg EXCEPT ![i] = read]
               /\ UNCHANGED <<checker, calls, package_config>>
          ELSE /\ rpc' = [rpc EXCEPT ![i] = "call"]
               /\ pkg' = [pkg EXCEPT ![i] = read]
               /\ checker' = [checker EXCEPT ![i] = selected]
               /\ package_config' =
                     IF selected = "pypi" THEN package_config
                     ELSE [package_config EXCEPT ![selected] = version_pattern]
               /\ calls' = [calls EXCEPT ![i] =
                     IF selected = "pypi" THEN <<{}>>
                     ELSE <<ExtraArgs(p.version_extract_key, p.aur_version,
                                      version_pattern)>>]
               /\ UNCHANGED <<batch, result>>
    /\ UNCHANGED <<batch_results, raised, raw, hook_calls, fn_in, fn_out,
                   evars, dvars, bvars>>

\* the call in progress returns r; the result is normalised and stored
Returned(i, r) ==
    /\ raw' = [raw EXCEPT ![i] = r]
    /\ hook_calls' = [hook_calls EXCEPT ![i] = HookVersions(r)]
    /\ result' = [result EXCEPT ![i] = NormalizeResult(i, r)]
    /\ rpc' = [rpc EXCEPT ![i] = "done"]

\* check_version of the JSON strategy fetches data and returns
JsonReturn(i, data) ==
    /\ batch = "running"
    /\ rpc[i] = "call"
    /\ checker[i] = "json"
    /\ pkg' = [pkg EXCEPT ![i].data = data]
    /\ Returned(i, JsonCheckVersion(data,
                       IF "version_extract_key" \in CurrentOpts(i)
                       THEN pkg[i].version_extract_key ELSE "",
                       IF "version_pattern" \in CurrentOpts(i)
                       THEN pkg[i].version_pattern ELSE NoneT,
                       package_config["json"]))
    /\ UNCHANGED <<batch, batch_results, checker, calls, raised,
                   package_config, fn_in, fn_out, evars, dvars, bvars>>

\* check_version of another strategy accepts the options and returns r
StrategyReturn(i, r) ==
    /\ batch = "running"
    /\ rpc[i] = "call"
    /\ checker[i] # "json"
    /\ CurrentOpts(i) \subseteq pkg[i].accepts
    /\ Returned(i, r)
    /\ UNCHANGED <<batch, batch_results, pkg, checker, calls, raised,
                   package_config, fn_in, fn_out, evars, dvars, bvars>>

\* check_version raises: TypeError where it does not accept an option of the
\* call, another exception from its body
StrategyRaise(i, kind) ==
    /\ batch = "running"
    /\ rpc[i] = "call"
    /\ checker[i] # "json"
    /\ kind = "TypeError" <=> ~(CurrentOpts(i) \subseteq pkg[i].accepts)
    /\ raised' = [raised EXCEPT ![i] = Append(@, kind)]
    /\ LET n == Len(calls[i])
           again(opts) ==
               /\ calls' = [calls EXCEPT ![i] = Append(@, opts)]
               /\ UNCHANGED <<batch, rpc, result>>
       IN IF checker[i] # "pypi" /\ n = 1 /\ ExceptTypeError(kind)
          THEN again(BasicArgs(pkg[i].version_extract_key))
          ELSE IF checker[i] # "pypi" /\ n = 2 /\ ExceptException(kind)
          THEN again({})
          ELSE /\ OuterExcept(i, kind)
               /\ UNCHANGED calls
    /\ UNCHANGED <<batch_results, pkg, checker, raw, hook_calls,
                   package_config, fn_in, fn_out, evars, dvars, bvars>>

\* gather returns the results of the tasks
BatchReturn ==
    /\ batch = "running"
    /\ \A i \in Recs : rpc[i] = "done"
    /\ batch' = "returned"
    /\ batch_results' = [i \in Recs |-> result[i]]
    /\ UNCHANGED <<rpc, pkg, checker, calls, raised, raw, result, hook_calls,
                   package_config, fn_in, fn_out, evars, dvars, bvars>>

ResolveNext ==
    \/ BatchStart
    \/ \E i \in Recs, p \in PackageInfos : ResolveBegin(i, p)
    \/ \E i \in Recs, data \in JsonDocs : JsonReturn(i, data)
    \/ \E i \in Recs, r \in StrategyReturns : StrategyReturn(i, r)
    \/ \E i \in Recs, kind \in ExceptionKinds : StrategyRaise(i, kind)
    \/ BatchReturn

ResolveSpec == Init /\ [][ResolveNext]_vars

\* the batch over records whose reference versions differ in shape
ShapesNext ==
    \/ BatchStart
    \/ \E i \in Recs, p \in ShapedPackageInfos : ResolveBegin(i, p)
    \/ \E i \in Recs, data \in JsonDocs : JsonReturn(i, data)
    \/ \E i \in Recs, r \in StrategyReturns : StrategyReturn(i, r)
    \/ \E i \in Recs, kind \in ExceptionKinds : StrategyRaise(i, kind)
    \/ BatchReturn

ShapesSpec == Init /\ [][ShapesNext]_vars

(***************************************************************************)
(* The same list of package_info dicts is handed to                        *)
(* check_multiple_upstream_versions again (the callers in src/ui pass the  *)
(* lists they are given); between the batches the reference version in     *)
(* storage may change.  The strategies are the ones whose check_version    *)
(* the model does not compute.                                             *)
(***************************************************************************)
RepeatPackageInfos ==
    [checker_type : {""},
     upstream_url : {"https://github.com/acme/widget"},
     version_extract_key : {""},
     aur_version : {NoneT, <<"1", ".", "2">>, <<"1", ".", "2", ".", "1">>},
     db_raises : {FALSE}, accepts : {OptNames}]

\* a new call with the dicts of the call that has returned
BatchAgain ==
    /\ batch = "returned"
    /\ batch' = "running"
    /\ batch_results' = <<>>
    /\ rpc' = [i \in Recs |-> "new"]
    /\ pkg' = [i \in Recs |-> Entered(i)]
    /\ checker' = [i \in Recs |-> ""]
    /\ calls' = [i \in Recs |-> <<>>]
    /\ raised' = [i \in Recs |-> <<>>]
    /\ raw' = [i \in Recs |-> NoRaw]
    /\ result' = [i \in Recs |-> NoResult]
    /\ hook_calls' = [i \in Recs |-> <<>>]
    /\ UNCHANGED <<package_config, fn_in, fn_out, evars, dvars, bvars>>

RepeatNext ==
    \/ BatchStart
    \/ \E i \in Recs, p \in RepeatPackageInfos : ResolveBegin(i, p)
    \/ \E i \in Recs, r \in StrategyReturns : StrategyReturn(i, r)
    \/ \E i \in Recs, kind \in ExceptionKinds : StrategyRaise(i, kind)
    \/ BatchReturn
    \/ BatchAgain

RepeatSpec == Init /\ [][RepeatNext]_vars

(***************************************************************************)
(* Strategy selection as a function of checker_type and upstream_url.      *)
(***************************************************************************)
SelectInputs ==
    [checker_type : KnownCheckers \cup {"", "nosuch"}, upstream_url : Urls]

InitSelect ==
    /\ max_concurrency = DefaultMaxConcurrency
    /\ InitRest
    /\ fn_in \in SelectInputs
    /\ fn_out = ""

ApplySelect ==
    /\ fn_out = ""
    /\ fn_out' = SelectChecker(fn_in.checker_type, fn_in.upstream_url)
    /\ UNCHANGED <<fn_in, batch, batch_results, rpc, pkg, checker, calls,
                   raised, raw, result, hook_calls, package_config, evars, dvars, bvars>>

SelectNext == ApplySelect

SelectSpec == InitSelect /\ [][SelectNext]_vars


(***************************************************************************)
(* The functions of VersionProcessor applied to one argument.              *)
(***************************************************************************)
Alphabet == {"1", ".", "v", "-"}

\* the strings over Alphabet of length MaxLen at most
Texts == UNION {[1..n -> Alphabet] : n \in 0..MaxLen}

InitVersion(inputs) ==
    /\ max_concurrency = DefaultMaxConcurrency
    /\ InitRest
    /\ fn_in \in inputs
    /\ fn_out = <<>>

UnchangedButFn ==
    UNCHANGED <<fn_in, batch, batch_results, rpc, pkg, checker, calls, raised,
                raw, result, hook_calls, package_config, evars, dvars, bvars>>

\* normalize_version(x), then normalize_version of the result
ApplyNormalize ==
    /\ Len(fn_out) < 2
    /\ fn_out' = Append(fn_out, NormalizeVersion(IF fn_out = <<>> THEN fn_in
                                                 ELSE fn_out[1]))
    /\ UnchangedButFn

NormalizeNext == ApplyNormalize

NormalizeSpec == InitVersion(Texts \cup {NoneT}) /\ [][NormalizeNext]_vars

\* candidates of is_version_similar and get_latest_version
Candidates ==
    {<<"1", ".", "2">>, <<"1", ".", "2", ".", "3">>, <<"1", ".", "1", "0">>,
     <<"2", ".", "6", ".", "3", "7">>, <<"6", ".", "3", "7">>, <<"7">>,
     <<"v", "1", ".", "3">>, <<"a", "b", "c">>, <<"1", ".", "2", ".">>,
     NoneT}

SimilarInputs ==
    [version : Texts \cup Candidates,
     version_pattern : {NoneT, PatternNames[2], PatternNames[3],
                        <<"1", ".", "2", ".", "3">>}]

ApplySimilar ==
    /\ fn_out = <<>>
    /\ fn_out' = <<IsVersionSimilar(fn_in.version, fn_in.version_pattern)>>
    /\ UnchangedButFn

SimilarNext == ApplySimilar

SimilarSpec == InitVersion(SimilarInputs) /\ [][SimilarNext]_vars

\* the lists of MaxVersions candidates at most
VersionLists == UNION {[1..n -> Candidates] : n \in 0..MaxVersions}

LatestInputs ==
    [versions : VersionLists,
     version_pattern : {NoneT, PatternNames[2], PatternNames[3]}]

ApplyLatest ==
    /\ fn_out = <<>>
    /\ fn_out' = <<GetLatestVersion(fn_in.versions, fn_in.version_pattern)>>
    /\ UnchangedButFn

LatestNext == ApplyLatest

LatestSpec == InitVersion(LatestInputs) /\ [][LatestNext]_vars

(***************************************************************************)
(* UpstreamGithubChecker.check_version applied to one repository.          *)
(***************************************************************************)
Filenames ==
    {<<"a", "p", "p", "-", "1", ".", "2", ".", "3">>,
     <<"A", "P", "P", "-", "1", ".", "3", ".", "0">>,
     <<"l", "i", "b", "-", "2", ".", "0", ".", "0">>,
     <<"n", "o", "t", "e", "s">>}

\* the asset lists of MaxAssets files at most
AssetLists == UNION {[1..n -> Filenames] : n \in 0..MaxAssets}

GithubInputs ==
    [version_extract_key : {<<>>, <<"a", "p", "p">>},
     release_tag : {NoneT, <<"v", "1", ".", "2", ".", "3">>,
                    <<"1", ".", "2", ".", "3", "-", "r", "c", "1">>,
                    <<"n", "i", "g", "h", "t", "l", "y">>},
     files : AssetLists,
     latest_tag : {NoneT, <<"v", "1", ".", "2", ".", "4">>,
                   <<"n", "i", "g", "h", "t", "l", "y">>},
     version_pattern : {NoneT, PatternNames[3]}]

ApplyGithub ==
    /\ fn_out = <<>>
    /\ fn_out' = <<GithubCheckVersion(fn_in)>>
    /\ UnchangedButFn

GithubNext == ApplyGithub

GithubSpec == InitVersion(GithubInputs) /\ [][GithubNext]_vars

(***************************************************************************)
(* UpstreamRedirectChecker.check_version applied to one response.          *)
(***************************************************************************)
Locations ==
    {NoneT,
     <<"h", "t", "t", "p", "s", ":", "/", "/", "h", "/", "3", ".", "4", "/", "a", "p", "p", "-", "1", ".", "2", "a", ".", "d", "e", "b">>,
     <<"h", "t", "t", "p", "s", ":", "/", "/", "h", "/", "d", "l", "/", "a", "p", "p", "-", "1", ".", "2", ".", "3", ".", "t", "a", "r", ".", "g", "z">>,
     <<"h", "t", "t", "p", "s", ":", "/", "/", "h", "/", "g", "e", "t", "/", "a", "p", "p", "_", "1", ".", "2", ".", "d", "e", "b">>,
     <<"h", "t", "t", "p", "s", ":", "/", "/", "h", "/", "l", "a", "t", "e", "s", "t">>,
     <<"h", "t", "t", "p", "s", ":", "/", "/", "h", "/", "v", "/", "t", "o", "o", "l", "2", "7", "1", "9", "v", "1", ".", "d", "e", "b">>}

RedirectInputs ==
    [status : {200, 302},
     location : Locations,
     version_extract_key : {NoneT, <<"a", "p", "p", "-">>},
     version_pattern_regex : {NoneT, <<"(">> \o DottedRe(2) \o <<")">>,
                              DefaultRegex},
     aur_version : {NoneT, <<"1", ".", "2">>, <<"1", ".", "2", "a">>, <<"1", ".", "2", ".", "3">>},
     version_pattern : {NoneT, PatternNames[2], PatternNames[3]},
     main_checker : BOOLEAN]

ApplyRedirect ==
    /\ fn_out = <<>>
    /\ fn_out' = <<RedirectCheckVersion(fn_in)>>
    /\ UnchangedButFn

RedirectNext == ApplyRedirect

RedirectSpec == InitVersion(RedirectInputs) /\ [][RedirectNext]_vars

\* the writers and the readers of the packages table
DatabaseSpec == Init /\ [][DatabaseNext]_vars

\* the BackgroundTaskManager with its worker threads
BackgroundSpec == Init /\ [][BackgroundNext]_vars

TypeOK ==
    /\ max_concurrency \in (1..MaxConcurrencyArg) \cup {DefaultMaxConcurrency}
    /\ requests_count \in 0..(NumOps + 1)
    /\ elapsed \in 0..(Window + 1)
    /\ drain \in {"idle", "loop", "sleep", "holding"}
    /\ st \in [Ops -> {"new", "checked", "queued", "popped", "pooled",
                       "running", "backoff", "done_ok", "done_fail"}]
    /\ retry_count \in [Ops -> 0..MaxRetries]
    /\ BusyWorkers <= MaxWorkers
    /\ batch \in {"idle", "running", "returned", "aborted"}
    /\ rpc \in [Recs -> {"new", "call", "done", "raised"}]
    /\ checker \in [Recs -> KnownCheckers \cup {""}]
    /\ \A i \in Recs :
          /\ Len(calls[i]) <= 3
          /\ Len(raised[i]) <= Len(calls[i])
          /\ \A k \in 1..Len(calls[i]) : calls[i][k] \subseteq OptNames
          /\ \A k \in 1..Len(raised[i]) : raised[i][k] \in ExceptionKinds
          /\ result[i].success \in BOOLEAN

(***************************************************************************)
(* Properties of the AsyncExecutor.                                        *)
(***************************************************************************)
Dispatched(o) == st[o] \in {"pooled", "running", "backoff", "done_ok",
                            "done_fail"}

RECURSIVE SumTo(_, _)
SumTo(f, n) == IF n < 0 THEN 0 ELSE f[n] + SumTo(f, n - 1)

\* dispatches made during the trailing Window ticks
RecentCount == SumTo(recent, Window - 1)

QueuedOps == {task_queue[i] : i \in 1..Len(task_queue)}

\* C1: every operation handed to the runner eventually reaches terminal
\* success or terminal failure; none stays queued or pending forever.
C1_AllComplete == <>(\A o \in Ops : Terminal(o))

\* every operation is terminal and at least one of them went through the
\* delayed queue (stats["total"] counts the direct dispatches only)
C1_Witness ==
    /\ \A o \in Ops : Terminal(o)
    /\ stats_total < NumOps

\* C2: no more than the per-minute limit of operations is dispatched
\* inside any rolling window of one period.
C2_RollingWindowClaim == RecentCount <= MaxRequestsPerMinute

\* C3: the number of concurrently active operations never exceeds the
\* configured max_concurrency.
C3_ConcurrencyCapClaim == current_concurrency <= max_concurrency

\* C8: no operation is dispatched before an earlier-submitted operation
\* that is still waiting in the queue (operations are numbered in
\* submission order).
C8_FifoClaim ==
    \A a \in QueuedOps : \A b \in Ops : Dispatched(b) => b < a

\* C9 as stated: every operation gets at most one callback, exactly one
\* once it is terminal, the success callback only on success and the
\* failure callback only after all max_retries retries were made.
C9_CallbackClaim ==
    \A o \in Ops :
        /\ cb_ok[o] + cb_err[o] <= 1
        /\ Terminal(o) => cb_ok[o] + cb_err[o] = 1
        /\ cb_ok[o] = 1 => st[o] = "done_ok"
        /\ cb_err[o] = 1 => st[o] = "done_fail" /\ retry_count[o] = MaxRetries

\* C9 amended: as above, but the failure callback comes after all
\* max_retries retries were made or, for an operation submitted with
\* retry_on_failure = False, after its first failure.
C9_CallbackAmended ==
    \A o \in Ops :
        /\ cb_ok[o] + cb_err[o] <= 1
        /\ Terminal(o) => cb_ok[o] + cb_err[o] = 1
        /\ cb_ok[o] = 1 => st[o] = "done_ok"
        /\ cb_err[o] = 1 =>
              /\ st[o] = "done_fail"
              /\ \/ retry_count[o] = MaxRetries
                 \/ ~retry_on_failure[o] /\ retry_count[o] = 0

\* one operation succeeded, one failed after all its retries and one
\* failed without a retry
C9_Witness ==
    /\ \E o \in Ops : cb_ok[o] = 1
    /\ \E o \in Ops : cb_err[o] = 1 /\ retry_count[o] = MaxRetries
    /\ \E o \in Ops : cb_err[o] = 1 /\ ~retry_on_failure[o]

C11_TimeoutRetried ==
    \A o \in Ops :
        timed_out[o] =>
            /\ cb_ok[o] = 0
            /\ st[o] \in {"backoff", "done_fail"}
            /\ retry_on_failure[o] =>
                  /\ retry_count[o] >= 1
                  /\ delays[o][1] = RetryDelayOf(1)
            /\ st[o] = "done_fail" =>
                  /\ cb_err[o] = 1
                  /\ retry_count[o] = MaxRetries \/ ~retry_on_failure[o]

\* an operation timed out, was retried max_retries times and failed
C11_Witness ==
    \E o \in Ops :
        /\ timed_out[o]
        /\ st[o] = "done_fail"
        /\ retry_count[o] = MaxRetries
        /\ cb_err[o] = 1

\* C22: an operation submitted with retries allowed whose first attempt
\* met a transient fault ends with the success callback and without the
\* failure callback.
C22_RetryReExecutes ==
    \A o \in Ops :
        transient[o] /\ retry_on_failure[o] /\ Terminal(o) =>
            /\ st[o] = "done_ok"
            /\ cb_ok[o] = 1
            /\ cb_err[o] = 0

(***************************************************************************)
(* Properties of the MainCheckerModule.                                    *)
(***************************************************************************)
\* the last call of the record's strategy raised
StrategyThrew(i) == raised[i] # <<>> /\ Len(raised[i]) = Len(calls[i])

\* a call of the record's strategy returned
StrategyAnswered(i) == calls[i] # <<>> /\ Len(raised[i]) < Len(calls[i])

\* C4: a batch over N records returns exactly N results, one for each
\* record; the result of a record whose strategy threw is a failed one,
\* and the result of every record whose strategy returned is the
\* normalisation of what it returned, whatever happened to the others.
C4_BatchIsolation ==
    /\ batch # "aborted"
    /\ batch = "returned" =>
          /\ Len(batch_results) = NumRecs
          /\ \A i \in Recs :
                /\ Cardinality({k \in DOMAIN batch_results :
                                   batch_results[k].name = i}) = 1
                /\ \A k \in DOMAIN batch_results :
                      batch_results[k].name = i =>
                         /\ StrategyThrew(i) => ~batch_results[k].success
                         /\ StrategyAnswered(i) =>
                               batch_results[k] = NormalizeResult(i, raw[i])

\* a batch has returned in which the strategy of one record threw and
\* another record was resolved
C4_Witness ==
    /\ batch = "returned"
    /\ \E i, j \in Recs :
          /\ i # j
          /\ StrategyThrew(i)
          /\ ~batch_results[i].success
          /\ StrategyAnswered(j)
          /\ batch_results[j].success

\* C5: a resolution that reports success carries a version that is
\* neither None nor empty, whichever strategy produced it.
C5_SuccessHasVersion ==
    \A i \in Recs :
        rpc[i] = "done" /\ result[i].success =>
            Truthy(result[i].upstream_version)

\* C6: the strategy is called again only after it rejected the options of
\* the call (TypeError), first with all the options, then with the
\* extraction key alone, then with none; and once a call is accepted after
\* rejections only, its return value is the one that is normalised.
C6_LadderClaim ==
    \A i \in Recs :
        /\ \A k \in 2..Len(calls[i]) : raised[i][k - 1] = "TypeError"
        /\ Len(calls[i]) >= 1 /\ checker[i] # "pypi" =>
              calls[i][1] = ExtraArgs(pkg[i].version_extract_key,
                                      pkg[i].aur_version,
                                      pkg[i].version_pattern)
        /\ Len(calls[i]) >= 2 =>
              calls[i][2] = BasicArgs(pkg[i].version_extract_key)
        /\ Len(calls[i]) >= 3 => calls[i][3] = {}
        /\ rpc[i] = "done" /\ StrategyAnswered(i) =>
              result[i] = NormalizeResult(i, raw[i])

\* the fixed, ordered table of host signatures
HostTable ==
    <<[signatures |-> {"github.com"}, lowered |-> FALSE,
       strategy |-> "github"],
      [signatures |-> {"gitlab.com", "gitlab.", "gl."}, lowered |-> TRUE,
       strategy |-> "gitlab"],
      [signatures |-> {"pypi.org", "python.org/pypi"}, lowered |-> FALSE,
       strategy |-> "pypi"]>>

HostMatches(k, url) ==
    \E sig \in HostTable[k].signatures :
        IF HostTable[k].lowered THEN InLowerUrl(sig, url) ELSE InUrl(sig, url)

\* C7: the selected strategy is the record's hint when that is set and
\* known, else the strategy of the first entry of the host table that
\* matches the URL, else the generic one.
C7_Selection ==
    fn_out # "" =>
        LET hint == fn_in.checker_type
            url == fn_in.upstream_url
            matching == {k \in DOMAIN HostTable : HostMatches(k, url)}
        IN fn_out =
              IF hint # "" /\ hint \in KnownCheckers THEN hint
              ELSE IF matching # {}
              THEN HostTable[CHOOSE k \in matching :
                                 \A m \in matching : k <= m].strategy
              ELSE "common"

\* https://github.com/acme/widget without a hint went to the GitHub
\* strategy
C7_Witness ==
    /\ fn_in = [checker_type |-> "",
                upstream_url |-> "https://github.com/acme/widget"]
    /\ fn_out = "github"

\* C12: while several resolutions are in flight, the pattern that a
\* strategy invocation reads from its checker's package_config is the one
\* inferred from its own record's reference version.
C12_OwnPattern ==
    \A i \in Recs :
        rpc[i] = "call" /\ checker[i] # "pypi" =>
            package_config[checker[i]] = pkg[i].version_pattern

\* C13: a record for which storage holds no reference version ends with a
\* failed result, no call of a strategy and no call of the update hook.
C13_NoReferenceVersion ==
    \A i \in Recs :
        pkg[i].row /\ ~Truthy(pkg[i].aur_version) =>
            /\ rpc[i] = "done"
            /\ ~result[i].success
            /\ checker[i] = ""
            /\ calls[i] = <<>>
            /\ hook_calls[i] = <<>>

\* a batch has returned the failed result of a record without reference
\* version next to a resolved one
C13_Witness ==
    /\ batch = "returned"
    /\ \E i, j \in Recs :
          /\ pkg[i].row
          /\ ~Truthy(pkg[i].aur_version)
          /\ ~batch_results[i].success
          /\ batch_results[j].success

\* C20: when check_version has been called for a record, the
\* version_pattern_regex it was given is the one _analyze_aur_version_pattern
\* infers from the record's reference version, and the version_pattern
\* option of the first call is the inferred pattern name.
C20_InferredPassed ==
    \A i \in Recs :
        calls[i] # <<>> =>
            /\ pkg[i].version_pattern_regex
                  = AnalyzeAurVersionRegex(pkg[i].aur_version)
            /\ "version_pattern" \in calls[i][1] =>
                  pkg[i].version_pattern
                    = AnalyzeAurVersionPattern(pkg[i].aur_version)

\* C21: when a strategy has answered a record's resolution,
\* update_upstream_version has been called for the record if and only if
\* the answer is a dict with a version under "version" or under
\* "upstream_version".
C21_HookIffVersion ==
    \A i \in Recs :
        rpc[i] = "done" /\ StrategyAnswered(i) =>
            (hook_calls[i] # <<>>
               <=> raw[i].dict
                   /\ Truthy(Or(raw[i].version, raw[i].upstream_version)))

(***************************************************************************)
(* Properties of the VersionProcessor.                                     *)
(***************************************************************************)
\* two segments at least, every one a run of digits
IsDottedNumeric(v) ==
    /\ v # NoneT
    /\ Len(Split(v, ".")) >= 2
    /\ \A k \in 1..Len(Split(v, ".")) : IsDigitStr(Split(v, ".")[k])

\* segment i of the integer tuple of v, right-padded with zeros
Segment(v, i) ==
    IF i <= Len(Split(v, ".")) THEN IntOf(Split(v, ".")[i]) ELSE 0

\* the padded integer tuple of a is smaller than that of b
TupleLess(a, b) ==
    \E i \in 1..(Len(a) + Len(b)) :
        /\ Segment(a, i) < Segment(b, i)
        /\ \A j \in 1..(i - 1) : Segment(a, j) = Segment(b, j)

\* the segments of v are consecutive segments of another text o
AlignedPart(v, o) ==
    /\ v # o
    /\ LET vp == Split(v, ".")
           op == Split(o, ".")
       IN \E k \in 1..(Len(op) - Len(vp) + 1) :
              SubSeq(op, k, k + Len(vp) - 1) = vp

\* C14: for candidates that are all dotted-numeric, get_latest_version
\* returns one of the candidates as it was given, and no candidate has a
\* larger zero-padded integer tuple.
C14_LatestIsLargest ==
    fn_out # <<>> /\ fn_in.versions # <<>>
       /\ (\A k \in DOMAIN fn_in.versions : IsDottedNumeric(fn_in.versions[k]))
    => /\ \E k \in DOMAIN fn_in.versions : fn_in.versions[k] = fn_out[1]
       /\ \A k \in DOMAIN fn_in.versions :
             ~TupleLess(fn_out[1], fn_in.versions[k])

\* get_latest_version(["1.2", "1.2.3"]) returned "1.2.3"
C14_Witness ==
    /\ fn_in.versions = <<<<"1", ".", "2">>, <<"1", ".", "2", ".", "3">>>>
    /\ fn_out = <<<<"1", ".", "2", ".", "3">>>>

\* C15: without a version_pattern, get_latest_version does not return a
\* candidate whose segments are consecutive segments of another candidate
\* of the list.
C15_NoPartOfAnother ==
    fn_out # <<>> /\ fn_in.version_pattern = NoneT /\ fn_out[1] # NoneT
    => ~\E k \in DOMAIN fn_in.versions :
           /\ fn_in.versions[k] # NoneT
           /\ AlignedPart(fn_out[1], fn_in.versions[k])

\* C16: get_latest_version returns None when no candidate of the list is
\* valid (has a non-empty normalised form), and the candidate itself when
\* exactly one is.
C16_ValidOnly ==
    fn_out # <<>> =>
        LET valid == ValidVersions(fn_in.versions)
        IN /\ valid = <<>> => fn_out[1] = NoneT
           /\ Len(valid) = 1 => fn_out[1] = valid[1].original

\* C17: normalize_version applied to its own result returns it unchanged.
C17_Idempotent == Len(fn_out) = 2 => fn_out[2] = fn_out[1]

\* normalize_version changed its argument and was applied to the result
C17_Witness ==
    /\ Len(fn_out) = 2
    /\ fn_in # NoneT
    /\ fn_out[1] # fn_in
    /\ fn_out[1] # <<>>

\* C18: the result of normalize_version for a string is empty, or it
\* starts with a digit and ends with a digit.
C18_DigitEnds ==
    fn_out # <<>> /\ fn_in # NoneT =>
        \/ fn_out[1] = <<>>
        \/ IsDigit(Head(fn_out[1])) /\ IsDigit(fn_out[1][Len(fn_out[1])])

\* C19: is_version_similar is true only for a candidate of two segments at
\* least whose segments are all runs of digits.
C19_SimilarOnlyNumeric ==
    fn_out = <<TRUE>> => IsDottedNumeric(fn_in.version)

(***************************************************************************)
(* Properties of the UpstreamGithubChecker.                                *)
(***************************************************************************)
\* what the three sources of check_version yield, in their order: the
\* assets step, the tag of the release, the latest tag
SourceValues(in) ==
    LET info == ExtractVersionFromFiles(in.files, in.version_extract_key,
                                        in.version_pattern)
        asset == IF Truthy(in.version_extract_key) /\ Truthy(in.release_tag)
                    /\ in.files # <<>> /\ info # NoVersionInfo
                 THEN <<info.version>> ELSE <<>>
        release == IF Truthy(in.release_tag)
                      /\ IsValidVersion(FormatVersion(in.release_tag))
                   THEN <<FormatVersion(in.release_tag)>> ELSE <<>>
        tag == IF Truthy(in.latest_tag)
                  /\ IsValidVersion(FormatVersion(in.latest_tag))
               THEN <<FormatVersion(in.latest_tag)>> ELSE <<>>
    IN asset \o release \o tag

\* C23: check_version returns the first source value that is similar to
\* the version_pattern or, when none is, the first source value, and it
\* fails only when no source yields a value.
C23_FirstSimilarSource ==
    fn_out # <<>> =>
        LET yields == SourceValues(fn_in)
            similar == SelectSeq(yields,
                          LAMBDA v : IsVersionSimilar(v, fn_in.version_pattern))
        IN IF yields = <<>> THEN ~fn_out[1].success
           ELSE /\ fn_out[1].success
                /\ fn_out[1].version = IF similar # <<>> THEN similar[1]
                                       ELSE yields[1]

\* C24: the versions of the assets step come from files whose name
\* contains the version_extract_key, whatever the case of the letters.
C24_OnlyKeyedAssets ==
    fn_out # <<>> /\ fn_out[1].source = "assets" =>
        \A k \in DOMAIN fn_out[1].all_versions :
            \E n \in DOMAIN fn_in.files :
                /\ HasKey(fn_in.files[n], fn_in.version_extract_key)
                /\ ExtractVersionFromFilename(fn_in.files[n])
                      = fn_out[1].all_versions[k]

(***************************************************************************)
(* Properties of the UpstreamJsonChecker leaves                            *)
(***************************************************************************)
\* C25: when neither the path nor a fallback field name resolves to a
\* string leaf and the fallback field "version" resolves to a nested
\* object, the JSON strategy reports a failure.
C25_NestedIsFailure ==
    \A i \in Recs :
        /\ rpc[i] = "done"
        /\ checker[i] = "json"
        /\ pkg[i].data.fetched
        /\ pkg[i].data.version.kind = "obj"
        /\ pkg[i].data.tag.kind # "str"
        => ~raw[i].success

(***************************************************************************)
(* Properties of the UpstreamRedirectChecker.                              *)
(***************************************************************************)
\* C26: for a 3xx response with a Location header, check_version returns
\* the value of the first step that yields one, the steps being taken in
\* the order: extraction key, caller's expression on the URL, caller's
\* expression on the filename, exact reference version, pattern of the
\* reference version's segment count, backup patterns.
C26_PriorityOrder ==
    /\ fn_out # <<>>
    /\ fn_in.status = 302
    /\ Truthy(fn_in.location)
    => fn_out[1].version =
          FirstYield(<<<<KeyStep(fn_in), "key">>,
                       <<RegexStep(fn_in, fn_in.location), "regex url">>,
                       <<RegexStep(fn_in, FilenameOf(fn_in.location)),
                         "regex filename">>,
                       <<ExactStep(fn_in), "exact">>,
                       <<DynamicStep(fn_in), "dynamic">>,
                       <<BackupStep(fn_in), "backup">>>>).version

(***************************************************************************)
(* Properties of the AsyncExecutor under concurrent dispatch.              *)
(***************************************************************************)
\* C27: the operations dispatched since the last reset of the rate-limit
\* counter, by run_coroutine or by the drain loop, never exceed
\* max_requests_per_minute; _requests_count is their number.
C27_DispatchedWithinLimit == requests_count <= MaxRequestsPerMinute

\* the Future that run_coroutine returned for o has a result or an
\* exception: the pool sets those of the Future of submit when _run_task
\* returns, and nothing sets those of the fresh Future
FutureDone(o) == future[o] = "submitted" /\ Terminal(o)

\* C28: the Future returned for an operation that was queued because the
\* rate limit was exceeded eventually completes.
C28_QueuedFutureCompletes ==
    \A o \in Ops : (future[o] = "fresh") ~> FutureDone(o)

(***************************************************************************)
(* Properties of the DatabaseModule cache.                                 *)
(***************************************************************************)
\* C29: a read that starts after a write has returned never returns a row
\* older than that write.
C29_NoStaleRead ==
    \A r \in ReaderIds :
        reader[r].pc = "returned" => reader[r].row.seq >= reader[r].floor

(***************************************************************************)
(* Properties of the BackgroundTaskManager.                                *)
(***************************************************************************)
\* C30: a free worker that takes a task takes one whose priority is the
\* highest of the pending tasks.
C30_HighestPriorityFirst ==
    [][\A w \in Workers :
          worker[w] = NoTask /\ worker'[w] # NoTask =>
              \A t \in bg_task_queue : t[1] <= worker'[w][1]]_vars

====
